---- MODULE Spec2Model ----
(***************************************************************************)
(* Verification model of the OMTS identity and merge engine:               *)
(* union-find, identity predicates, property merge and the merge pipeline. *)
(***************************************************************************)
EXTENDS Integers, Sequences, FiniteSets, TLC

VARIABLES
    parent,     \* UnionFind.parent : ordinal -> ordinal
    rank,       \* UnionFind.rank   : ordinal -> u8
    united,     \* history: the set of {a, b} passed to union so far
    lastOp,     \* history: the last call made on the union-find
    parentB,    \* a second UnionFind, fed the same calls in another order
    rankB,
    unitedB,
    idA,        \* identity predicates: the first Identifier record
    idB,        \* identity predicates: the second Identifier record
    idOut,      \* identity predicates: what the calls returned
    edgeA,      \* edges_match: the first Edge
    edgeB,      \* edges_match: the second Edge
    edgeReps,   \* edges_match: the resolved endpoint representatives
    edgeOut,    \* edges_match: what the call returned
    saEdges,    \* apply_same_as_edges: the edges of all source files
    saUf,       \* apply_same_as_edges: the union-find it is given
    saOut,      \* apply_same_as_edges: the threshold used and what it left
    scInputs,   \* merge_scalars: the (value, source_file) inputs
    scOut,      \* merge_scalars: what the call returned
    mgA,        \* merge: the first input file
    mgB,        \* merge: the second input file
    mgOutAB,    \* merge: what merge([a, b]) returned, once called
    mgOutBA,    \* merge: what merge([b, a]) returned, once called
    miInputs,   \* merge_identifiers: the identifier arrays given
    miOut,      \* merge_identifiers: what the call returned
    zsData,     \* decompress_zstd: the bytes given
    zsMax,      \* decompress_zstd: max_size
    zsOut,      \* decompress_zstd: what the call returned and how much it read
    pzBytes,    \* parse_omts: the bytes given
    pzMax,      \* parse_omts: max_decompressed
    pzOut,      \* parse_omts: what the call returned
    sgFile,     \* subgraph extraction: the file the graph was built from
    sgOut,      \* subgraph extraction: the call made and what it returned
    rdFile,     \* redact: the input file
    rdOut,      \* redact: the scope and retain set given and the file returned
    vlFile,     \* validate: the file given
    vlOut,      \* validate: the diagnostics each rule appended
    dfOld,      \* diff: the old value of a scalar field
    dfNew,      \* diff: the new value of the field
    dfOut       \* diff: the property changes maybe_change pushed

ufVars == <<parent, rank, united, lastOp>>
ufBVars == <<parentB, rankB, unitedB>>
idVars == <<idA, idB, idOut>>
edgeVars == <<edgeA, edgeB, edgeReps, edgeOut>>
saVars == <<saEdges, saUf, saOut>>
scVars == <<scInputs, scOut>>
mgVars == <<mgA, mgB, mgOutAB, mgOutBA>>
miVars == <<miInputs, miOut>>
coreVars == <<ufVars, ufBVars, idVars, edgeVars, saVars, scVars, mgVars>>
zsVars == <<zsData, zsMax, zsOut>>
pzVars == <<pzBytes, pzMax, pzOut>>
sgVars == <<sgFile, sgOut>>
rdVars == <<rdFile, rdOut>>
vlVars == <<vlFile, vlOut>>
dfVars == <<dfOld, dfNew, dfOut>>
extVars == <<miVars, zsVars, pzVars, sgVars, rdVars, vlVars, dfVars>>

\* ------------------------------------------------------------------------
\* Bounds
\* ------------------------------------------------------------------------
NumElems == 4

\* distinct pairs united in SpecUF
MaxUnions == 4

\* union calls each of the two union-finds of SpecUFPair receives
MaxPairUnions == 2

\* calendar days 1 .. MaxDate stand for the CalendarDate values
MaxDate == 2

\* properties in which the two edges handed to edges_match differ
MaxDiffProps == 1

\* Edges handed to one apply_same_as_edges call.
MaxSameAsEdges == 2

\* Inputs handed to one merge_scalars call.
MaxInputs == 3

\* merge_identifiers: the number of identifier arrays given.
MaxIdArrays == 2

\* decompress_zstd: the longest payload compressed.
MaxPayload == 3

\* parse_omts: the largest max_decompressed given.
MaxDecompressed == 11

\* Subgraph extraction: the edges of the file, and the largest radius or
\* expansion asked for.
MaxGraphEdges == 2

MaxHops == 2

\* Redaction: the edges of the file redacted.
MaxRedactEdges == 1

\* Validation: the nodes of a file of nodes, the edges of a file of edges.
MaxValNodes == 3
MaxValEdges == 2

\* Diff: the hyphen-separated parts of a string value compared.
MaxDiffParts == 3

\* Nodes and edges of the file merged with itself.
MaxFileNodes == 2

MaxFileEdges == 2

\* Nodes of each of the two files merged in both orders.
MaxPairNodes == 1

MaxPairEdges == 1

\* Nodes of the first file of a merge over identifier links.
MaxLinkNodes == 2

U8Modulus == 256

Elems == 0 .. (NumElems - 1)

\* Option<T>: None is the empty tuple, Some(x) the one-element tuple.
None == <<>>

Some(x) == <<x>>

IsSome(o) == o # None

Unwrap(o) == o[1]

\* Result<T, E>
Ok(x) == [ok |-> TRUE, value |-> x]

Err(e) == [ok |-> FALSE, error |-> e]

IsOk(r) == r.ok

\* ------------------------------------------------------------------------
\* UnionFind (union_find.rs)
\* ------------------------------------------------------------------------
UnionFindNew == [parent |-> [i \in Elems |-> i], rank |-> [i \in Elems |-> 0]]

\* find with iterative path-halving: returns the root and the rewritten parents.
RECURSIVE find(_, _)
find(p, x) ==
    IF p[x] = x
    THEN [parent |-> p, root |-> x]
    ELSE LET grandparent == p[p[x]]
         IN find([p EXCEPT ![x] = grandparent], grandparent)

unionLowerOrdinalLoses(uf, a, b) ==
    LET fa == find(uf.parent, a)
        fb == find(fa.parent, b)
        ra == fa.root
        rb == fb.root
        p  == fb.parent
        r  == uf.rank
    IN  IF ra = rb THEN [parent |-> p, rank |-> r]
        ELSE IF r[ra] < r[rb] THEN [parent |-> [p EXCEPT ![ra] = rb], rank |-> r]
        ELSE IF r[ra] > r[rb] THEN [parent |-> [p EXCEPT ![rb] = ra], rank |-> r]
        ELSE IF ra > rb
             THEN [parent |-> [p EXCEPT ![rb] = ra],
                   rank |-> [r EXCEPT ![ra] = (r[ra] + 1) % U8Modulus]]
             ELSE [parent |-> [p EXCEPT ![ra] = rb],
                   rank |-> [r EXCEPT ![rb] = (r[rb] + 1) % U8Modulus]]

unionNoLink(uf, a, b) ==
    LET fa == find(uf.parent, a)
        fb == find(fa.parent, b)
    IN  [parent |-> fb.parent, rank |-> uf.rank]

\* The mutant that links on a tie without raising the rank of the root.
unionKeepsRankOnTie(uf, a, b) ==
    LET fa == find(uf.parent, a)
        fb == find(fa.parent, b)
        ra == fa.root
        rb == fb.root
        p  == fb.parent
        r  == uf.rank
    IN  IF ra = rb THEN [parent |-> p, rank |-> r]
        ELSE IF r[ra] < r[rb] THEN [parent |-> [p EXCEPT ![ra] = rb], rank |-> r]
        ELSE IF r[ra] > r[rb] THEN [parent |-> [p EXCEPT ![rb] = ra], rank |-> r]
        ELSE IF ra < rb THEN [parent |-> [p EXCEPT ![rb] = ra], rank |-> r]
        ELSE [parent |-> [p EXCEPT ![ra] = rb], rank |-> r]

\* union by rank; on a rank tie the lower ordinal becomes the root.
union(uf, a, b) ==
    LET fa == find(uf.parent, a)
        fb == find(fa.parent, b)
        ra == fa.root
        rb == fb.root
        p  == fb.parent
        r  == uf.rank
    IN  IF ra = rb THEN [parent |-> p, rank |-> r]
        ELSE IF r[ra] < r[rb] THEN [parent |-> [p EXCEPT ![ra] = rb], rank |-> r]
        ELSE IF r[ra] > r[rb] THEN [parent |-> [p EXCEPT ![rb] = ra], rank |-> r]
        ELSE IF ra < rb
             THEN [parent |-> [p EXCEPT ![rb] = ra],
                   rank |-> [r EXCEPT ![ra] = (r[ra] + 1) % U8Modulus]]
             ELSE [parent |-> [p EXCEPT ![ra] = rb],
                   rank |-> [r EXCEPT ![rb] = (r[rb] + 1) % U8Modulus]]

\* The representative find would return, without rewriting anything.
Rep(p, x) == find(p, x).root

NoOp == [op |-> "new", a |-> 0, b |-> 0, halved |-> FALSE]

\* The united pair as the history records it: union(a, a) links nothing.
Pair(a, b) == IF a = b THEN {} ELSE {{a, b}}

InitUF ==
    /\ parent = UnionFindNew.parent
    /\ rank = UnionFindNew.rank
    /\ united = {}
    /\ lastOp = NoOp

InitUFB ==
    /\ parentB = UnionFindNew.parent
    /\ rankB = UnionFindNew.rank
    /\ unitedB = {}

Find(x) ==
    LET f == find(parent, x)
    IN  /\ parent' = f.parent
        /\ lastOp' = [op |-> "find", a |-> x, b |-> x, halved |-> f.parent # parent]
        /\ UNCHANGED <<rank, united>>

Union(a, b) ==
    LET u == union([parent |-> parent, rank |-> rank], a, b)
    IN  /\ parent' = u.parent
        /\ rank' = u.rank
        /\ united' = united \cup Pair(a, b)
        /\ lastOp' = [op |-> "union", a |-> a, b |-> b, halved |-> FALSE]

UnionB(a, b) ==
    LET u == union([parent |-> parentB, rank |-> rankB], a, b)
    IN  /\ parentB' = u.parent
        /\ rankB' = u.rank
        /\ unitedB' = unitedB \cup Pair(a, b)

\* ------------------------------------------------------------------------
\* Identity predicates (identity/predicates.rs)
\* ------------------------------------------------------------------------
\* A string is a sequence of characters.
Str(c) == <<c>>

IsWhitespace(c) == c = " "

\* str::trim: leading and trailing whitespace removed.
RECURSIVE TrimStart(_)
TrimStart(s) ==
    IF s # <<>> /\ IsWhitespace(Head(s)) THEN TrimStart(Tail(s)) ELSE s

RECURSIVE TrimEnd(_)
TrimEnd(s) ==
    IF s # <<>> /\ IsWhitespace(s[Len(s)])
    THEN TrimEnd(SubSeq(s, 1, Len(s) - 1))
    ELSE s

Trim(s) == TrimEnd(TrimStart(s))

\* u8::to_ascii_lowercase on the letters of the model's alphabet.
ToAsciiLowercase(c) ==
    CASE c = "G" -> "g"
      [] c = "D" -> "d"
      [] c = "X" -> "x"
      [] c = "Y" -> "y"
      [] OTHER -> c

\* str::eq_ignore_ascii_case
EqIgnoreAsciiCase(s, t) ==
    /\ Len(s) = Len(t)
    /\ \A i \in 1 .. Len(s) : ToAsciiLowercase(s[i]) = ToAsciiLowercase(t[i])

Dates == 1 .. MaxDate

Schemes == {"lei", "duns", "internal"}

Values == {<<"x">>, <<" ", "x", " ">>, <<"y">>}

Authorities == {None, Some(<<"g">>), Some(<<"G">>), Some(<<"d">>)}

\* Identifier: valid_from is Option<CalendarDate>; valid_to is
\* Option<Option<CalendarDate>>: None (absent), Some(None) (explicit
\* no-expiry) or Some(Some(date)).
Identifiers ==
    [scheme : Schemes, value : Values, authority : Authorities,
     valid_from : {None} \cup {Some(d) : d \in Dates},
     valid_to : {None, Some(None)} \cup {Some(Some(d)) : d \in Dates}]

intervals_disjointInclusive(end, start) ==
    IF start = None THEN FALSE
    ELSE IF end = None THEN FALSE
    ELSE IF end = Some(None) THEN FALSE
    ELSE Unwrap(Unwrap(end)) <= Unwrap(start)

intervals_disjoint(end, start) ==
    IF start = None THEN FALSE
    ELSE IF end = None THEN FALSE
    ELSE IF end = Some(None) THEN FALSE
    ELSE Unwrap(Unwrap(end)) < Unwrap(start)

temporal_compatible(a, b) ==
    LET a_has_temporal == a.valid_from # None \/ a.valid_to # None
        b_has_temporal == b.valid_from # None \/ b.valid_to # None
    IN  IF ~a_has_temporal \/ ~b_has_temporal THEN TRUE
        ELSE IF intervals_disjoint(a.valid_to, b.valid_from) THEN FALSE
        ELSE IF intervals_disjoint(b.valid_to, a.valid_from) THEN FALSE
        ELSE TRUE

identifiers_matchOneSidedAuthority(a, b) ==
    IF a.scheme = "internal" \/ b.scheme = "internal" THEN FALSE
    ELSE IF a.scheme # b.scheme THEN FALSE
    ELSE IF Trim(a.value) # Trim(b.value) THEN FALSE
    ELSE IF a.authority # None /\ b.authority = None THEN FALSE
    ELSE IF a.authority # None /\ b.authority # None
            /\ ~EqIgnoreAsciiCase(Unwrap(a.authority), Unwrap(b.authority)) THEN FALSE
    ELSE temporal_compatible(a, b)

identifiers_matchUntrimmed(a, b) ==
    IF a.scheme = "internal" \/ b.scheme = "internal" THEN FALSE
    ELSE IF a.scheme # b.scheme THEN FALSE
    ELSE IF a.value # b.value THEN FALSE
    ELSE IF (a.authority # None \/ b.authority # None)
            /\ (a.authority = None \/ b.authority = None) THEN FALSE
    ELSE IF a.authority # None /\ b.authority # None
            /\ ~EqIgnoreAsciiCase(Unwrap(a.authority), Unwrap(b.authority)) THEN FALSE
    ELSE temporal_compatible(a, b)

identifiers_match(a, b) ==
    IF a.scheme = "internal" \/ b.scheme = "internal" THEN FALSE
    ELSE IF a.scheme # b.scheme THEN FALSE
    ELSE IF Trim(a.value) # Trim(b.value) THEN FALSE
    ELSE IF (a.authority # None \/ b.authority # None)
            /\ (a.authority = None \/ b.authority = None) THEN FALSE
    ELSE IF a.authority # None /\ b.authority # None
            /\ ~EqIgnoreAsciiCase(Unwrap(a.authority), Unwrap(b.authority)) THEN FALSE
    ELSE temporal_compatible(a, b)

NotCalled == [called |-> FALSE, ab |-> FALSE, ba |-> FALSE, temporal |-> FALSE]

InitId ==
    /\ idA \in Identifiers
    /\ idB \in Identifiers
    /\ idOut = NotCalled

IdleId ==
    /\ idA = None
    /\ idB = None
    /\ idOut = NotCalled

\* The predicates applied to the pair, in both argument orders.
MatchIdentifiers ==
    /\ ~idOut.called
    /\ idOut' = [called |-> TRUE,
                 ab |-> identifiers_match(idA, idB),
                 ba |-> identifiers_match(idB, idA),
                 temporal |-> temporal_compatible(idA, idB)]
    /\ UNCHANGED <<idA, idB>>

\* ------------------------------------------------------------------------
\* Edge identity (identity/predicates.rs)
\* ------------------------------------------------------------------------
\* EdgeTypeTag: the sixteen known types and an extension type.
KnownEdgeTypes ==
    {"ownership", "operational_control", "legal_parentage", "former_identity",
     "beneficial_ownership", "supplies", "subcontracts", "tolls", "distributes",
     "brokers", "operates", "produces", "composed_of", "sells_to",
     "attested_by", "same_as"}

ExtensionEdgeType == "com.acme.leases"

EdgeTypes == KnownEdgeTypes \cup {ExtensionEdgeType}

\* The EdgeProperties fields the identity table reads. A value is a token;
\* a percentage token stands for an f64 bit pattern.
PropFields ==
    {"percentage", "direct", "control_type", "consolidation_basis",
     "event_type", "effective_date", "commodity", "contract_ref",
     "service_type", "scope"}

PropValues == {None, Some(1), Some(2)}

EdgeProps == [PropFields -> PropValues]

\* Option<f64> compared by bit pattern (f64::to_bits).
options_eq(a, b) ==
    IF a = None /\ b = None THEN TRUE
    ELSE IF IsSome(a) /\ IsSome(b) THEN Unwrap(a) = Unwrap(b)
    ELSE FALSE

edge_identity_properties_matchIgnoresDirect(edge_type, a, b) ==
    CASE edge_type = "ownership" -> options_eq(a.percentage, b.percentage)
      [] edge_type = "operational_control" -> a.control_type = b.control_type
      [] edge_type = "legal_parentage" -> a.consolidation_basis = b.consolidation_basis
      [] edge_type = "former_identity" ->
            a.event_type = b.event_type /\ a.effective_date = b.effective_date
      [] edge_type = "beneficial_ownership" ->
            a.control_type = b.control_type /\ options_eq(a.percentage, b.percentage)
      [] edge_type = "supplies" ->
            a.commodity = b.commodity /\ a.contract_ref = b.contract_ref
      [] edge_type = "subcontracts" ->
            a.commodity = b.commodity /\ a.contract_ref = b.contract_ref
      [] edge_type = "tolls" -> a.commodity = b.commodity
      [] edge_type = "distributes" -> a.service_type = b.service_type
      [] edge_type = "brokers" -> a.commodity = b.commodity
      [] edge_type = "operates" -> TRUE
      [] edge_type = "produces" -> TRUE
      [] edge_type = "composed_of" -> TRUE
      [] edge_type = "sells_to" ->
            a.commodity = b.commodity /\ a.contract_ref = b.contract_ref
      [] edge_type = "attested_by" -> a.scope = b.scope
      [] edge_type = "same_as" -> FALSE
      [] OTHER -> TRUE

edge_identity_properties_match(edge_type, a, b) ==
    CASE edge_type = "ownership" ->
            options_eq(a.percentage, b.percentage) /\ a.direct = b.direct
      [] edge_type = "operational_control" -> a.control_type = b.control_type
      [] edge_type = "legal_parentage" -> a.consolidation_basis = b.consolidation_basis
      [] edge_type = "former_identity" ->
            a.event_type = b.event_type /\ a.effective_date = b.effective_date
      [] edge_type = "beneficial_ownership" ->
            a.control_type = b.control_type /\ options_eq(a.percentage, b.percentage)
      [] edge_type = "supplies" ->
            a.commodity = b.commodity /\ a.contract_ref = b.contract_ref
      [] edge_type = "subcontracts" ->
            a.commodity = b.commodity /\ a.contract_ref = b.contract_ref
      [] edge_type = "tolls" -> a.commodity = b.commodity
      [] edge_type = "distributes" -> a.service_type = b.service_type
      [] edge_type = "brokers" -> a.commodity = b.commodity
      [] edge_type = "operates" -> TRUE
      [] edge_type = "produces" -> TRUE
      [] edge_type = "composed_of" -> TRUE
      [] edge_type = "sells_to" ->
            a.commodity = b.commodity /\ a.contract_ref = b.contract_ref
      [] edge_type = "attested_by" -> a.scope = b.scope
      [] edge_type = "same_as" -> FALSE
      [] OTHER -> TRUE

\* Option<Vec<Identifier>> filtered to the non-internal records.
external(identifiers) ==
    LET ids == IF identifiers = None THEN <<>> ELSE Unwrap(identifiers)
    IN  SelectSeq(ids, LAMBDA id : id.scheme # "internal")

edges_matchPropsRegardless(reps, a, b) ==
    IF a.edge_type = "same_as" THEN FALSE
    ELSE IF b.edge_type = "same_as" THEN FALSE
    ELSE IF reps.source_rep_a # reps.source_rep_b
            \/ reps.target_rep_a # reps.target_rep_b THEN FALSE
    ELSE IF a.edge_type # b.edge_type THEN FALSE
    ELSE LET a_external == external(a.identifiers)
             b_external == external(b.identifiers)
         IN  \/ \E i \in 1 .. Len(a_external) : \E j \in 1 .. Len(b_external) :
                    identifiers_match(a_external[i], b_external[j])
             \/ edge_identity_properties_match(a.edge_type, a.properties, b.properties)

edges_match(reps, a, b) ==
    IF a.edge_type = "same_as" THEN FALSE
    ELSE IF b.edge_type = "same_as" THEN FALSE
    ELSE IF reps.source_rep_a # reps.source_rep_b
            \/ reps.target_rep_a # reps.target_rep_b THEN FALSE
    ELSE IF a.edge_type # b.edge_type THEN FALSE
    ELSE LET a_external == external(a.identifiers)
             b_external == external(b.identifiers)
         IN  IF a_external # <<>> \/ b_external # <<>>
             THEN \E i \in 1 .. Len(a_external) : \E j \in 1 .. Len(b_external) :
                      identifiers_match(a_external[i], b_external[j])
             ELSE edge_identity_properties_match(a.edge_type, a.properties,
                                                 b.properties)

PlainId(scheme, value) ==
    [scheme |-> scheme, value |-> value, authority |-> None,
     valid_from |-> None, valid_to |-> None]

\* The identifier lists the edges carry.
EdgeIdLists ==
    {None,
     Some(<<>>),
     Some(<<PlainId("internal", <<"x">>)>>),
     Some(<<PlainId("lei", <<"x">>)>>),
     Some(<<PlainId("duns", <<"y">>), PlainId("lei", <<" ", "x", " ">>)>>),
     Some(<<PlainId("internal", <<"x">>), PlainId("duns", <<"x">>)>>)}

\* The type pairs: every type with itself, and pairs of unequal types.
EdgeTypePairs ==
    {<<t, t>> : t \in EdgeTypes}
        \cup {<<"supplies", "same_as">>, <<"same_as", "supplies">>,
              <<"supplies", "ownership">>, <<"ownership", "supplies">>}

\* The sets of fields in which the second edge differs from the first.
DiffSets == {D \in SUBSET PropFields : Cardinality(D) <= MaxDiffProps}

\* The property pairs: the first record holds base in every field, the
\* second another value in exactly the fields D.
PropPairs ==
    UNION {UNION {{<<[f \in PropFields |-> base],
                    [f \in PropFields |-> IF f \in D THEN alt[f] ELSE base]>> :
                        alt \in [D -> PropValues \ {base}]} :
                  D \in DiffSets} :
           base \in {None, Some(1)}}

InitEdge ==
    /\ \E tt \in EdgeTypePairs, ia, ib \in EdgeIdLists, pp \in PropPairs :
          /\ edgeA = [edge_type |-> tt[1], identifiers |-> ia, properties |-> pp[1]]
          /\ edgeB = [edge_type |-> tt[2], identifiers |-> ib, properties |-> pp[2]]
    /\ edgeReps \in [source_rep_a : {0}, target_rep_a : {1},
                     source_rep_b : {0, 1}, target_rep_b : {0, 1}]
    /\ edgeOut = [called |-> FALSE, result |-> FALSE]

IdleEdge ==
    /\ edgeA = None
    /\ edgeB = None
    /\ edgeReps = None
    /\ edgeOut = [called |-> FALSE, result |-> FALSE]

EdgesMatch ==
    /\ ~edgeOut.called
    /\ edgeOut' = [called |-> TRUE, result |-> edges_match(edgeReps, edgeA, edgeB)]
    /\ UNCHANGED <<edgeA, edgeB, edgeReps>>

\* ------------------------------------------------------------------------
\* same_as edges (merge/types.rs, merge/ops.rs)
\* ------------------------------------------------------------------------
\* serde_json::Value, as far as the confidence lookup reads it.
JsonString(s) == [kind |-> "string", s |-> s]

JsonNumber(n) == [kind |-> "number", n |-> n]

\* Value::as_str
as_str(v) == IF v.kind = "string" THEN Some(v.s) ELSE None

\* Option::and_then(|v| v.as_str())
AndThenAsStr(o) == IF IsSome(o) THEN as_str(Unwrap(o)) ELSE None

\* Option::or_else
OrElse(o, p) == IF IsSome(o) THEN o ELSE p

\* Option::unwrap_or
UnwrapOr(o, d) == IF IsSome(o) THEN Unwrap(o) ELSE d

SameAsThresholds == {"Definite", "Probable", "Possible"}

\* #[default] on SameAsThreshold
SameAsThresholdDefault == "Definite"

\* SameAsLevel::from_str
SameAsLevelFromStr(s) ==
    CASE s = "definite" -> "Definite"
      [] s = "probable" -> "Probable"
      [] OTHER -> "Possible"

honoursProbableAsDefinite(threshold, confidence) ==
    LET level == SameAsLevelFromStr(UnwrapOr(confidence, "possible")) IN
    CASE threshold = "Definite" -> level \in {"Definite", "Probable"}
      [] threshold = "Probable" -> level \in {"Definite", "Probable"}
      [] threshold = "Possible" -> TRUE

\* SameAsThreshold::honours
honours(threshold, confidence) ==
    LET level == SameAsLevelFromStr(UnwrapOr(confidence, "possible")) IN
    CASE threshold = "Definite" -> level = "Definite"
      [] threshold = "Probable" -> level \in {"Definite", "Probable"}
      [] threshold = "Possible" -> TRUE

confidence_strPropertiesOnly(edge) == AndThenAsStr(edge.properties_extra)

\* The confidence lookup of apply_same_as_edges: properties.extra first,
\* then the edge-level extra.
confidence_str(edge) ==
    OrElse(AndThenAsStr(edge.properties_extra), AndThenAsStr(edge.extra))

\* The caller's node_id_to_ordinal closure over a map from node ids to
\* ordinals: None for an unknown id.
node_id_to_ordinal(map, id) == IF id \in DOMAIN map THEN Some(map[id]) ELSE None

\* The mutant that does not test the edge type.
RECURSIVE apply_same_as_edgesAnyType(_, _, _, _, _, _)
apply_same_as_edgesAnyType(edges, i, map, uf, threshold, honoured) ==
    IF i > Len(edges) THEN [uf |-> uf, honoured |-> honoured]
    ELSE LET edge == edges[i]
             src_ord == node_id_to_ordinal(map, edge.source)
             tgt_ord == node_id_to_ordinal(map, edge.target)
         IN  IF ~honours(threshold, confidence_str(edge))
                THEN apply_same_as_edgesAnyType(edges, i + 1, map, uf, threshold, honoured)
             ELSE IF src_ord = None
                THEN apply_same_as_edgesAnyType(edges, i + 1, map, uf, threshold, honoured)
             ELSE IF tgt_ord = None
                THEN apply_same_as_edgesAnyType(edges, i + 1, map, uf, threshold, honoured)
             ELSE apply_same_as_edgesAnyType(edges, i + 1, map,
                      union(uf, Unwrap(src_ord), Unwrap(tgt_ord)), threshold,
                      Append(honoured, i))

\* The loop of apply_same_as_edges from edge i on; honoured holds the
\* positions of the edges the returned references point to.
RECURSIVE apply_same_as_edgesFrom(_, _, _, _, _, _)
apply_same_as_edgesFrom(edges, i, map, uf, threshold, honoured) ==
    IF i > Len(edges) THEN [uf |-> uf, honoured |-> honoured]
    ELSE LET edge == edges[i]
             src_ord == node_id_to_ordinal(map, edge.source)
             tgt_ord == node_id_to_ordinal(map, edge.target)
         IN  IF edge.edge_type # "same_as"
                THEN apply_same_as_edgesFrom(edges, i + 1, map, uf, threshold, honoured)
             ELSE IF ~honours(threshold, confidence_str(edge))
                THEN apply_same_as_edgesFrom(edges, i + 1, map, uf, threshold, honoured)
             ELSE IF src_ord = None
                THEN apply_same_as_edgesFrom(edges, i + 1, map, uf, threshold, honoured)
             ELSE IF tgt_ord = None
                THEN apply_same_as_edgesFrom(edges, i + 1, map, uf, threshold, honoured)
             ELSE apply_same_as_edgesFrom(edges, i + 1, map,
                      union(uf, Unwrap(src_ord), Unwrap(tgt_ord)), threshold,
                      Append(honoured, i))

apply_same_as_edges(edges, map, uf, threshold) ==
    apply_same_as_edgesFrom(edges, 1, map, uf, threshold, <<>>)

\* The node ids of the concatenated node slice; zz is not among them.
SameAsNodeOrdinals == [id \in {"n0", "n1", "n2"} |-> CASE id = "n0" -> 0
                                                      [] id = "n1" -> 1
                                                      [] id = "n2" -> 2]

\* The same_as edges drawn: every endpoint resolution, every confidence on
\* the property extension map, and a confidence on the edge-level map.
SameAsEndpoints == {<<"n0", "n1">>, <<"n1", "n2">>, <<"n0", "zz">>, <<"zz", "n1">>}

PropertyConfidences ==
    {None, Some(JsonNumber(1)), Some(JsonString("definite")),
     Some(JsonString("probable")), Some(JsonString("possible")),
     Some(JsonString("high"))}

EdgeConfidences == {None, Some(JsonString("definite")), Some(JsonString("probable"))}

SameAsEdges ==
    {[edge_type |-> "same_as", source |-> st[1], target |-> st[2],
      properties_extra |-> pc, extra |-> ec] :
        st \in SameAsEndpoints, pc \in PropertyConfidences, ec \in EdgeConfidences}
    \cup
    {[edge_type |-> "supplies", source |-> "n0", target |-> "n1",
      properties_extra |-> pc, extra |-> None] :
        pc \in {None, Some(JsonString("definite"))}}

EdgeLists == UNION {[1 .. n -> SameAsEdges] : n \in 0 .. MaxSameAsEdges}

SameAsNotCalled ==
    [called |-> FALSE, threshold |-> SameAsThresholdDefault, defaulted |-> FALSE,
     uf |-> UnionFindNew, honoured |-> <<>>]

InitSameAs ==
    /\ saEdges \in EdgeLists
    /\ saUf = UnionFindNew
    /\ saOut = SameAsNotCalled

\* The call after an identifier pass: the union-find holds nothing together,
\* or n1 with n2, or n0 with n2; the edges carry their confidence, if any,
\* on the property extension map.
SameAsUnionFinds ==
    {UnionFindNew, union(UnionFindNew, 1, 2), union(UnionFindNew, 0, 2)}

FrameEdges ==
    {e \in SameAsEdges :
        /\ e.extra = None
        /\ e.properties_extra \in {None, Some(JsonString("definite")),
                                    Some(JsonString("probable"))}}

InitSameAsFrame ==
    /\ saEdges \in UNION {[1 .. n -> FrameEdges] : n \in 0 .. MaxSameAsEdges}
    /\ saUf \in SameAsUnionFinds
    /\ saOut = SameAsNotCalled

IdleSameAs ==
    /\ saEdges = <<>>
    /\ saUf = UnionFindNew
    /\ saOut = SameAsNotCalled

\* One call of apply_same_as_edges, under a configured threshold or, with
\* none configured, the default one.
ApplySameAs ==
    /\ ~saOut.called
    /\ \E cfg \in {None} \cup {Some(t) : t \in SameAsThresholds} :
          LET threshold == UnwrapOr(cfg, SameAsThresholdDefault)
              r == apply_same_as_edges(saEdges, SameAsNodeOrdinals, saUf, threshold)
          IN  saOut' = [called |-> TRUE, threshold |-> threshold,
                        defaulted |-> cfg = None,
                        uf |-> r.uf, honoured |-> r.honoured]
    /\ UNCHANGED <<saEdges, saUf>>

\* ------------------------------------------------------------------------
\* Scalar merge (merge/ops.rs)
\* ------------------------------------------------------------------------
\* Where the order of strings matters they are sequences of characters.
JsonNull == [kind |-> "null"]

\* The printable ASCII characters in byte order, from the space (byte 32) on
\* (the backslash, byte 92, and the backtick, byte 96, by name).
Ascii ==
    <<" ", "!", "\"", "#", "$", "%", "&", "'", "(", ")", "*", "+",
      ",", "-", ".", "/", "0", "1", "2", "3", "4", "5", "6", "7",
      "8", "9", ":", ";", "<", "=", ">", "?", "@", "A", "B", "C",
      "D", "E", "F", "G", "H", "I", "J", "K", "L", "M", "N", "O",
      "P", "Q", "R", "S", "T", "U", "V", "W", "X", "Y", "Z", "[",
      "backslash", "]", "^", "_", "backtick", "a", "b", "c", "d", "e", "f", "g",
      "h", "i", "j", "k", "l", "m", "n", "o", "p", "q", "r", "s",
      "t", "u", "v", "w", "x", "y", "z", "{", "|", "}", "~">>

\* The byte of a character, for str::cmp.
CharCode(c) == 31 + (CHOOSE i \in 1 .. Len(Ascii) : Ascii[i] = c)

\* Ord for str: byte-wise lexicographic, a proper prefix first.
RECURSIVE StrCmp(_, _)
StrCmp(a, b) ==
    IF a = <<>> /\ b = <<>> THEN "Equal"
    ELSE IF a = <<>> THEN "Less"
    ELSE IF b = <<>> THEN "Greater"
    ELSE IF CharCode(Head(a)) < CharCode(Head(b)) THEN "Less"
    ELSE IF CharCode(Head(a)) > CharCode(Head(b)) THEN "Greater"
    ELSE StrCmp(Tail(a), Tail(b))

\* Ordering::then_with
ThenWith(first, second) == IF first = "Equal" THEN second ELSE first

DigitChar(d) == <<"0", "1", "2", "3", "4", "5", "6", "7", "8", "9">>[d + 1]

\* Display of an unsigned integer.
RECURSIVE Digits(_)
Digits(n) ==
    IF n < 10 THEN <<DigitChar(n)>>
    ELSE Digits(n \div 10) \o <<DigitChar(n % 10)>>

\* serde_json::to_value(val).unwrap_or(Value::Null) for the scalar types
\* merged: a string, an unsigned integer, a float (a non-finite float
\* serialises to null).
ToValue(val) ==
    CASE val.t = "String" -> JsonString(val.s)
      [] val.t = "u64" -> JsonNumber(val.n)
      [] val.t = "f64" -> JsonNull

\* Value::to_string
ToJsonString(v) ==
    CASE v.kind = "null" -> <<"n", "u", "l", "l">>
      [] v.kind = "number" -> Digits(v.n)
      [] v.kind = "string" -> <<"\"">> \o v.s \o <<"\"">>

ConflictEntry(value, source_file) == [value |-> value, source_file |-> source_file]

Agreed(value) == [tag |-> "Agreed", value |-> value, entries |-> <<>>]

Conflict(entries) == [tag |-> "Conflict", value |-> None, entries |-> entries]

\* The comparator of entries.sort_by.
EntryCmp(a, b) ==
    ThenWith(StrCmp(a.source_file, b.source_file),
             StrCmp(ToJsonString(a.value), ToJsonString(b.value)))

\* slice::sort_by is stable: each entry goes behind every entry that is not
\* greater than it.
RECURSIVE InsertSorted(_, _)
InsertSorted(sorted, e) ==
    IF sorted = <<>> THEN <<e>>
    ELSE IF EntryCmp(Head(sorted), e) = "Greater" THEN <<e>> \o sorted
    ELSE <<Head(sorted)>> \o InsertSorted(Tail(sorted), e)

RECURSIVE SortEntries(_)
SortEntries(entries) ==
    IF entries = <<>> THEN <<>>
    ELSE InsertSorted(SortEntries(SubSeq(entries, 1, Len(entries) - 1)),
                      entries[Len(entries)])

\* Vec::dedup_by: an entry is dropped when it equals the last entry kept.
RECURSIVE DedupEntriesFrom(_, _, _)
DedupEntriesFrom(entries, i, kept) ==
    IF i > Len(entries) THEN kept
    ELSE IF kept # <<>>
            /\ entries[i].source_file = kept[Len(kept)].source_file
            /\ entries[i].value = kept[Len(kept)].value
         THEN DedupEntriesFrom(entries, i + 1, kept)
    ELSE DedupEntriesFrom(entries, i + 1, Append(kept, entries[i]))

DedupEntries(entries) == DedupEntriesFrom(entries, 1, <<>>)

\* The (json_val, source, val) triples of the inputs that carry a value.
RECURSIVE Present(_)
Present(inputs) ==
    IF inputs = <<>> THEN <<>>
    ELSE LET opt == Head(inputs).value
             rest == Present(Tail(inputs))
         IN  IF IsSome(opt)
             THEN <<[json_val |-> ToValue(Unwrap(opt)),
                     source |-> Head(inputs).source_file,
                     val |-> Unwrap(opt)]>> \o rest
             ELSE rest

merge_scalarsFirstWins(inputs) ==
    LET present == Present(inputs) IN
    IF present = <<>> THEN Agreed(None) ELSE Agreed(Some(present[1].val))

merge_scalarsUnsorted(inputs) ==
    LET present == Present(inputs) IN
    IF present = <<>> THEN Agreed(None)
    ELSE IF \A i \in 1 .. Len(present) : present[i].json_val = present[1].json_val
         THEN Agreed(Some(present[1].val))
    ELSE Conflict(DedupEntries(
             [i \in 1 .. Len(present) |->
                 ConflictEntry(present[i].json_val, present[i].source)]))

merge_scalars(inputs) ==
    LET present == Present(inputs) IN
    IF present = <<>> THEN Agreed(None)
    ELSE IF \A i \in 1 .. Len(present) : present[i].json_val = present[1].json_val
         THEN Agreed(Some(present[1].val))
    ELSE Conflict(DedupEntries(SortEntries(
             [i \in 1 .. Len(present) |->
                 ConflictEntry(present[i].json_val, present[i].source)])))

\* The scalar values and source files drawn.
ScalarValues ==
    {[t |-> "String", s |-> <<"a">>], [t |-> "String", s |-> <<"b">>],
     [t |-> "u64", n |-> 2], [t |-> "u64", n |-> 10],
     [t |-> "f64", x |-> "NaN"], [t |-> "f64", x |-> "inf"]}

SourceFiles == {<<"a">>, <<"b">>}

ScalarInputs ==
    [value : {None} \cup {Some(v) : v \in ScalarValues}, source_file : SourceFiles]

ScalarNotCalled == [called |-> FALSE, result |-> Agreed(None)]

InitScalars ==
    /\ scInputs \in UNION {[1 .. n -> ScalarInputs] : n \in 0 .. MaxInputs}
    /\ scOut = ScalarNotCalled

IdleScalars ==
    /\ scInputs = <<>>
    /\ scOut = ScalarNotCalled

MergeScalars ==
    /\ ~scOut.called
    /\ scOut' = [called |-> TRUE, result |-> merge_scalars(scInputs)]
    /\ UNCHANGED scInputs

\* ------------------------------------------------------------------------
\* Identifier merge (merge/ops.rs) and the rules the merged file is held to
\* ------------------------------------------------------------------------
\* is_lei_annulled: an lei record whose extension map says ANNULLED.
is_lei_annulled(id) ==
    IF id.scheme # "lei" THEN FALSE
    ELSE AndThenAsStr(id.entity_status) = Some("ANNULLED")

SchemeChars(scheme) ==
    CASE scheme = "lei" -> <<"l", "e", "i">>
      [] scheme = "duns" -> <<"d", "u", "n", "s">>
      [] scheme = "internal" -> <<"i", "n", "t", "e", "r", "n", "a", "l">>
      [] scheme = "vat" -> <<"v", "a", "t">>

\* str::to_lowercase on ASCII text.
to_lowercase(s) == [i \in 1 .. Len(s) |-> ToAsciiLowercase(s[i])]

CaseInsensitiveSchemes == {"lei", "duns", "gln"}

\* The canonical identifier string: "{scheme}:{value}", lower-cased for the
\* case-insensitive schemes, then "@{authority, lower-cased}" when the
\* record has an authority.
CanonicalId(id) ==
    LET head == SchemeChars(id.scheme) \o <<":">> \o id.value
    IN  (IF id.scheme \in CaseInsensitiveSchemes THEN to_lowercase(head) ELSE head)
        \o (IF IsSome(id.authority)
            THEN <<"@">> \o to_lowercase(Unwrap(id.authority))
            ELSE <<>>)

\* Tuples of strings compared component by component.
RECURSIVE KeyCmp(_, _)
KeyCmp(a, b) ==
    IF a = <<>> \/ b = <<>> THEN "Equal"
    ELSE ThenWith(StrCmp(Head(a), Head(b)), KeyCmp(Tail(a), Tail(b)))

\* A stable sort of records by their key field.
RECURSIVE InsertByKey(_, _)
InsertByKey(sorted, e) ==
    IF sorted = <<>> THEN <<e>>
    ELSE IF KeyCmp(Head(sorted).key, e.key) = "Greater" THEN <<e>> \o sorted
    ELSE <<Head(sorted)>> \o InsertByKey(Tail(sorted), e)

RECURSIVE SortByKey(_)
SortByKey(items) ==
    IF items = <<>> THEN <<>>
    ELSE InsertByKey(SortByKey(SubSeq(items, 1, Len(items) - 1)), items[Len(items)])

\* The loops of merge_identifiers: every record of every present input, in
\* input order, kept when its canonical string was not seen before.
RECURSIVE KeepFirstFrom(_, _, _, _, _)
KeepFirstFrom(inputs, i, j, seen, result) ==
    IF i > Len(inputs) THEN result
    ELSE IF inputs[i] = None \/ j > Len(Unwrap(inputs[i]))
         THEN KeepFirstFrom(inputs, i + 1, 1, seen, result)
    ELSE LET id == Unwrap(inputs[i])[j]
             key == CanonicalId(id)
         IN  IF key \in seen
             THEN KeepFirstFrom(inputs, i, j + 1, seen, result)
             ELSE KeepFirstFrom(inputs, i, j + 1, seen \cup {key},
                                Append(result, [key |-> <<key>>, id |-> id]))

merge_identifiersLastWins(inputs) ==
    LET reversed == [i \in 1 .. Len(inputs) |-> inputs[Len(inputs) + 1 - i]]
        result == SortByKey(KeepFirstFrom(reversed, 1, 1, {}, <<>>))
    IN  [i \in 1 .. Len(result) |-> result[i].id]

merge_identifiersUnsorted(inputs) ==
    LET result == KeepFirstFrom(inputs, 1, 1, {}, <<>>)
    IN  [i \in 1 .. Len(result) |-> result[i].id]

merge_identifiers(inputs) ==
    LET result == SortByKey(KeepFirstFrom(inputs, 1, 1, {}, <<>>))
    IN  [i \in 1 .. Len(result) |-> result[i].id]

\* L1-GDM-01: no two nodes share an id.
GdmRule01(file) ==
    \A i, j \in 1 .. Len(file.nodes) : file.nodes[i].id = file.nodes[j].id => i = j

\* L1-GDM-02: no two edges share an id.
GdmRule02(file) ==
    \A i, j \in 1 .. Len(file.edges) : file.edges[i].id = file.edges[j].id => i = j

\* L1-GDM-03: every edge source and target is the id of a node.
GdmRule03(file) ==
    LET node_ids == {file.nodes[i].id : i \in 1 .. Len(file.nodes)}
    IN  \A i \in 1 .. Len(file.edges) :
            file.edges[i].source \in node_ids /\ file.edges[i].target \in node_ids

\* L1-EID-11: no two identifier records of a node share scheme, value and
\* authority.
L1Eid11(file) ==
    \A n \in 1 .. Len(file.nodes) :
        LET ids == IF file.nodes[n].identifiers = None THEN <<>>
                   ELSE Unwrap(file.nodes[n].identifiers)
        IN  \A i, j \in 1 .. Len(ids) :
                (/\ ids[i].scheme = ids[j].scheme
                 /\ ids[i].value = ids[j].value
                 /\ ids[i].authority = ids[j].authority) => i = j

\* The file raises no L1 error.
L1Valid(file) == GdmRule01(file) /\ GdmRule02(file) /\ GdmRule03(file) /\ L1Eid11(file)

\* ------------------------------------------------------------------------
\* Merge pipeline (the eight phases of the merge procedure)
\* ------------------------------------------------------------------------
GroupSizeLimitDefault == 50

\* MergeConfig::default()
MergeConfigDefault ==
    [group_size_limit |-> GroupSizeLimitDefault,
     same_as_threshold |-> SameAsThresholdDefault]

\* UnionFind::new(n)
UnionFindOfSize(n) ==
    [parent |-> [i \in 0 .. n - 1 |-> i], rank |-> [i \in 0 .. n - 1 |-> 0]]

\* edge_composite_key: None for a same_as edge.
edge_composite_key(source_rep, target_rep, edge) ==
    IF edge.edge_type = "same_as" THEN None
    ELSE Some([source_rep |-> source_rep, target_rep |-> target_rep,
               edge_type |-> edge.edge_type])

\* Phase 1: the nodes (edges) of all files in one array, each with the index
\* of its file; global ordinals count from 0.
RECURSIVE ConcatNodes(_, _)
ConcatNodes(files, fi) ==
    IF fi > Len(files) THEN <<>>
    ELSE [k \in 1 .. Len(files[fi].nodes) |-> [file |-> fi, node |-> files[fi].nodes[k]]]
         \o ConcatNodes(files, fi + 1)

RECURSIVE ConcatEdges(_, _)
ConcatEdges(files, fi) ==
    IF fi > Len(files) THEN <<>>
    ELSE [k \in 1 .. Len(files[fi].edges) |-> [file |-> fi, edge |-> files[fi].edges[k]]]
         \o ConcatEdges(files, fi + 1)

\* The node id -> global ordinal map of one file.
NodeIdMap(all_nodes, fi) ==
    LET ords == {o \in 0 .. Len(all_nodes) - 1 : all_nodes[o + 1].file = fi}
    IN  [id \in {all_nodes[o + 1].node.id : o \in ords} |->
            CHOOSE o \in ords : all_nodes[o + 1].node.id = id]

\* The node id -> global ordinal map of every file.
NodeIdMaps(files, all_nodes) == [fi \in 1 .. Len(files) |-> NodeIdMap(all_nodes, fi)]

\* Phase 2: the identifier index, as (ordinal, canonical key, record) entries
\* in ordinal order, without internal-scheme records and annulled LEIs.
Indexed(id) == id.scheme # "internal" /\ ~is_lei_annulled(id)

NodeIndexEntries(o, identifiers) ==
    IF identifiers = None THEN <<>>
    ELSE [j \in 1 .. Len(SelectSeq(Unwrap(identifiers), Indexed)) |->
            [ordinal |-> o,
             key |-> CanonicalId(SelectSeq(Unwrap(identifiers), Indexed)[j]),
             id |-> SelectSeq(Unwrap(identifiers), Indexed)[j]]]

RECURSIVE IndexEntries(_, _)
IndexEntries(all_nodes, n) ==
    IF n = 0 THEN <<>>
    ELSE IndexEntries(all_nodes, n - 1)
         \o NodeIndexEntries(n - 1, all_nodes[n].node.identifiers)

\* The pairs of one key bucket whose records pass identifiers_match, in
\* index order.
BucketPairs(entries) ==
    {p \in (1 .. Len(entries)) \X (1 .. Len(entries)) :
        /\ p[1] < p[2]
        /\ entries[p[1]].key = entries[p[2]].key
        /\ identifiers_match(entries[p[1]].id, entries[p[2]].id)}

PairBefore(p, q) == p[1] < q[1] \/ (p[1] = q[1] /\ p[2] < q[2])

RECURSIVE PairsInOrder(_)
PairsInOrder(pairs) ==
    IF pairs = {} THEN <<>>
    ELSE PairsInOrder(pairs \ {CHOOSE p \in pairs : \A q \in pairs \ {p} : PairBefore(q, p)})
         \o <<CHOOSE p \in pairs : \A q \in pairs \ {p} : PairBefore(q, p)>>

\* Every such pair is united.
RECURSIVE UnionPairs(_, _, _, _)
UnionPairs(entries, pairs, k, uf) ==
    IF k = 0 THEN uf
    ELSE union(UnionPairs(entries, pairs, k - 1, uf),
               entries[pairs[k][1]].ordinal, entries[pairs[k][2]].ordinal)

UnionEntries(entries, pairs, uf) == UnionPairs(entries, pairs, Len(pairs), uf)

UnionBuckets(entries, uf) == UnionEntries(entries, PairsInOrder(BucketPairs(entries)), uf)

\* Phase 3: the same_as edges of each file, resolved through its own id map.
RECURSIVE SameAsPass(_, _, _, _, _)
SameAsPass(files, fi, maps, uf, threshold) ==
    IF fi = 0 THEN uf
    ELSE apply_same_as_edges(files[fi].edges, maps[fi],
                             SameAsPass(files, fi - 1, maps, uf, threshold),
                             threshold).uf

\* find(o) of every ordinal, once the passes are over.
RepOf(uf, n) == [o \in 0 .. n - 1 |-> Rep(uf.parent, o)]

Members(rep_of, r) == {o \in DOMAIN rep_of : rep_of[o] = r}

Representatives(rep_of) == {rep_of[o] : o \in DOMAIN rep_of}

\* Phase 4: a warning for each group larger than the limit.
OversizeWarnings(rep_of, limit) ==
    {[representative_ordinal |-> r, group_size |-> Cardinality(Members(rep_of, r)),
      limit |-> limit] :
        r \in {q \in Representatives(rep_of) : Cardinality(Members(rep_of, q)) > limit}}

RECURSIVE Ascending(_)
Ascending(S) ==
    IF S = {} THEN <<>>
    ELSE LET m == CHOOSE x \in S : \A y \in S : x <= y
         IN  <<m>> \o Ascending(S \ {m})

\* The lexicographically smallest of a set of ids.
SmallestId(ids) == CHOOSE x \in ids : \A y \in ids : StrCmp(x, y) # "Greater"

ChosenId(all_nodes, rep_of, r) ==
    SmallestId({all_nodes[o + 1].node.id : o \in Members(rep_of, r)})

\* Phase 5: the output node of one group, its members in ordinal order.
MergedNode(id, name, identifiers) ==
    [id |-> id,
     name |-> name.value,
     identifiers |-> IF identifiers = <<>> THEN None ELSE Some(identifiers),
     conflicts |-> IF name.tag = "Conflict"
                   THEN <<[field |-> "name", values |-> name.entries]>>
                   ELSE <<>>]

MergeMembers(files, all_nodes, id, members) ==
    MergedNode(id,
               merge_scalars(
                   [k \in 1 .. Len(members) |->
                       [value |-> all_nodes[members[k] + 1].node.name,
                        source_file |->
                           files[all_nodes[members[k] + 1].file].source_file]]),
               merge_identifiers(
                   [k \in 1 .. Len(members) |->
                       all_nodes[members[k] + 1].node.identifiers]))

MergeNode(files, all_nodes, rep_of, r) ==
    MergeMembers(files, all_nodes, ChosenId(all_nodes, rep_of, r),
                 Ascending(Members(rep_of, r)))

NodeMergePass(files, all_nodes, rep_of, reps) ==
    [k \in 1 .. Len(reps) |-> MergeNode(files, all_nodes, rep_of, reps[k])] \o <<>>

MergedNodes(files, all_nodes, rep_of) ==
    NodeMergePass(files, all_nodes, rep_of, Ascending(Representatives(rep_of)))

\* Phase 6: the composite key of every edge (None for same_as); two
\* candidates of one bucket are linked when edges_match holds, and each
\* class of linked candidates becomes one output edge.
EdgeKey(edge, src_ord, tgt_ord, rep_of) ==
    IF src_ord = None THEN None
    ELSE IF tgt_ord = None THEN None
    ELSE edge_composite_key(rep_of[Unwrap(src_ord)], rep_of[Unwrap(tgt_ord)], edge)

EdgeKeys(all_edges, maps, rep_of) ==
    [i \in 1 .. Len(all_edges) |->
        EdgeKey(all_edges[i].edge,
                node_id_to_ordinal(maps[all_edges[i].file], all_edges[i].edge.source),
                node_id_to_ordinal(maps[all_edges[i].file], all_edges[i].edge.target),
                rep_of)]

EdgeLinks(all_edges, keys) ==
    {p \in (1 .. Len(all_edges)) \X (1 .. Len(all_edges)) :
        /\ keys[p[1]] # None
        /\ keys[p[1]] = keys[p[2]]
        /\ edges_match([source_rep_a |-> Unwrap(keys[p[1]]).source_rep,
                        target_rep_a |-> Unwrap(keys[p[1]]).target_rep,
                        source_rep_b |-> Unwrap(keys[p[2]]).source_rep,
                        target_rep_b |-> Unwrap(keys[p[2]]).target_rep],
                       all_edges[p[1]].edge, all_edges[p[2]].edge)}

RECURSIVE Linked(_, _)
Linked(S, links) ==
    LET T == S \cup {p[2] : p \in {q \in links : q[1] \in S}}
               \cup {p[1] : p \in {q \in links : q[2] \in S}}
    IN  IF T = S THEN S ELSE Linked(T, links)

EdgePartitions(keys, links) ==
    {Linked({i}, links) : i \in {k \in DOMAIN keys : keys[k] # None}}

\* The output edge of one partition: endpoints rewritten to the chosen ids
\* of their groups (phase 7), the smallest member id as its id.
MergedEdge(all_nodes, rep_of, id, key) ==
    [id |-> id,
     source |-> ChosenId(all_nodes, rep_of, key.source_rep),
     target |-> ChosenId(all_nodes, rep_of, key.target_rep),
     edge_type |-> key.edge_type]

MergeEdge(all_nodes, all_edges, rep_of, keys, part) ==
    MergedEdge(all_nodes, rep_of, SmallestId({all_edges[i].edge.id : i \in part}),
               Unwrap(keys[CHOOSE i \in part : TRUE]))

EdgeTypeChars(edge_type) ==
    CASE edge_type = "supplies" -> <<"s", "u", "p", "p", "l", "i", "e", "s">>
      [] edge_type = "same_as" -> <<"s", "a", "m", "e", "_", "a", "s">>

\* The least members of the partitions, for a fixed order before sorting.
PartitionHeads(parts) == {CHOOSE i \in part : \A j \in part : i <= j : part \in parts}

MergeError(error) ==
    [ok |-> FALSE, error |-> error, nodes |-> <<>>, edges |-> <<>>,
     warnings |-> {}, conflict_count |-> 0]

RECURSIVE SumLen(_)
SumLen(s) == IF s = <<>> THEN 0 ELSE Len(Head(s).conflicts) + SumLen(Tail(s))

EdgeMergePass(all_nodes, all_edges, rep_of, keys, parts, heads) ==
    [k \in 1 .. Len(heads) |->
        MergeEdge(all_nodes, all_edges, rep_of, keys,
                  CHOOSE part \in parts : heads[k] \in part)] \o <<>>

MergePartitions(all_nodes, all_edges, rep_of, keys, parts) ==
    EdgeMergePass(all_nodes, all_edges, rep_of, keys, parts,
                  Ascending(PartitionHeads(parts)))

MergedEdges(all_nodes, all_edges, rep_of, keys) ==
    MergePartitions(all_nodes, all_edges, rep_of, keys,
                    EdgePartitions(keys, EdgeLinks(all_edges, keys)))

\* Phase 7: nodes by chosen id, edges by (source, target, type, id).
Items(sorted) == [k \in 1 .. Len(sorted) |-> sorted[k].item]

SortNodes(merged_nodes) ==
    Items(SortByKey([k \in 1 .. Len(merged_nodes) |->
                        [key |-> <<merged_nodes[k].id>>, item |-> merged_nodes[k]]]))

SortEdges(merged_edges) ==
    Items(SortByKey([k \in 1 .. Len(merged_edges) |->
                        [key |-> <<merged_edges[k].source, merged_edges[k].target,
                                   EdgeTypeChars(merged_edges[k].edge_type),
                                   merged_edges[k].id>>,
                         item |-> merged_edges[k]]]))

\* Phase 8: any L1 error of the output fails the merge.
PostMergeValidation(file, warnings) ==
    IF ~L1Valid(file) THEN MergeError("PostMergeValidationFailed")
    ELSE [ok |-> TRUE, error |-> "", nodes |-> file.nodes, edges |-> file.edges,
          warnings |-> warnings, conflict_count |-> SumLen(file.nodes)]

MergeGroups(files, config, all_nodes, all_edges, maps, rep_of) ==
    PostMergeValidation(
        [nodes |-> SortNodes(MergedNodes(files, all_nodes, rep_of)),
         edges |-> SortEdges(MergedEdges(all_nodes, all_edges, rep_of,
                                         EdgeKeys(all_edges, maps, rep_of)))],
        OversizeWarnings(rep_of, config.group_size_limit))

MergeResolved(files, config, all_nodes, all_edges, maps) ==
    MergeGroups(files, config, all_nodes, all_edges, maps,
                RepOf(SameAsPass(files, Len(files), maps,
                                 UnionBuckets(IndexEntries(all_nodes, Len(all_nodes)),
                                              UnionFindOfSize(Len(all_nodes))),
                                 config.same_as_threshold),
                      Len(all_nodes)))

MergeConcatenated(files, config, all_nodes, all_edges) ==
    MergeResolved(files, config, all_nodes, all_edges, NodeIdMaps(files, all_nodes))

merge_with_config(files, config) ==
    IF files = <<>> THEN MergeError("NoInputFiles")
    ELSE MergeConcatenated(files, config, ConcatNodes(files, 1), ConcatEdges(files, 1))

merge(files) == merge_with_config(files, MergeConfigDefault)

\* The files drawn. Identifier records: one DUNS number under two
\* sensitivities, a second DUNS number, an internal record, an annulled LEI.
MergeIdentifier(scheme, value, authority, sensitivity, entity_status) ==
    [scheme |-> scheme, value |-> value, authority |-> authority,
     valid_from |-> None, valid_to |-> None,
     sensitivity |-> sensitivity, entity_status |-> entity_status]

DunsOne == <<"1", "0", "0", "0", "0", "0", "0", "0", "0">>

DunsTwo == <<"2", "0", "0", "0", "0", "0", "0", "0", "0">>

LeiValue ==
    <<"5", "2", "9", "9", "0", "0", "D", "G", "X", "Y",
      "0", "0", "D", "G", "X", "Y", "0", "0", "4", "3">>

NodeIdLists(with_confidential) ==
    LET d1pub == MergeIdentifier("duns", DunsOne, None, Some("public"), None)
        d1conf == MergeIdentifier("duns", DunsOne, None, Some("confidential"), None)
        d2 == MergeIdentifier("duns", DunsTwo, None, None, None)
        int == MergeIdentifier("internal", <<"x">>, Some(<<"g">>), None, None)
        lei == MergeIdentifier("lei", LeiValue, None, None,
                               Some(JsonString("ANNULLED")))
    IN  {None, Some(<<d1pub>>), Some(<<d2>>), Some(<<int>>), Some(<<lei>>),
         Some(<<d2, d1pub>>)}
        \cup (IF with_confidential THEN {Some(<<d1conf>>)} ELSE {})

NodeIdChars == <<"a", "b", "c", "d">>

EdgeIdChars == <<"e", "f", "g", "h">>

NameA == Some([t |-> "String", s |-> <<"a">>])

NameB == Some([t |-> "String", s |-> <<"b">>])

\* The edges from a file's first node to its last: supplies with and without
\* a commodity, and a definite same_as.
EdgeKinds ==
    {[edge_type |-> "supplies", commodity |-> None, confidence |-> None],
     [edge_type |-> "supplies", commodity |-> Some(1), confidence |-> None],
     [edge_type |-> "same_as", commodity |-> None,
      confidence |-> Some(JsonString("definite"))]}

MergeEdgeOf(k, kind, source, target) ==
    [id |-> <<EdgeIdChars[k]>>, edge_type |-> kind.edge_type,
     source |-> source, target |-> target, identifiers |-> None,
     properties |-> [f \in PropFields |->
                        IF f = "commodity" THEN kind.commodity ELSE None],
     properties_extra |-> kind.confidence, extra |-> None]

\* Files of n nodes with ids from ids (a sequence of n distinct ids) and at
\* most max_edges edges.
FilesOf(source_file, ids, names, id_lists, max_edges) ==
    LET n == Len(ids) IN
    {[source_file |-> source_file,
      nodes |-> [k \in 1 .. n |->
                    [id |-> ids[k], name |-> nn[k], identifiers |-> il[k]]],
      edges |-> [k \in 1 .. Len(ks) |-> MergeEdgeOf(k, ks[k], ids[1], ids[n])]] :
        nn \in [1 .. n -> names], il \in [1 .. n -> id_lists],
        ks \in UNION {[1 .. m -> EdgeKinds] :
                         m \in 0 .. (IF n = 0 THEN 0 ELSE max_edges)}}

\* merge([f, f]): files of up to MaxFileNodes nodes a, b, ...
SelfFiles ==
    {f \in UNION {FilesOf(<<"a">>, [k \in 1 .. n |-> <<NodeIdChars[k]>>],
                          {NameA}, NodeIdLists(FALSE), MaxFileEdges) :
                     n \in 0 .. MaxFileNodes} :
        L1Valid(f)}

\* merge([a, b]) against merge([b, a]): files of at most MaxPairNodes nodes,
\* each node named a or b.
PairFiles(source_file) ==
    {f \in UNION {FilesOf(source_file, ids, {None, NameA, NameB},
                          {None} \cup (NodeIdLists(TRUE) \ NodeIdLists(FALSE))
                                 \cup {il \in NodeIdLists(FALSE) :
                                           il # None /\ Len(il[1]) = 2},
                          MaxPairEdges) :
                     ids \in UNION {[1 .. n -> {<<"a">>, <<"b">>}] :
                                       n \in 0 .. MaxPairNodes}} :
        L1Valid(f)}

InitMergeSelf ==
    /\ mgA \in SelfFiles
    /\ mgB = mgA
    /\ mgOutAB = None
    /\ mgOutBA = None

InitMergePair ==
    /\ mgA \in PairFiles(<<"a">>)
    /\ mgB \in PairFiles(<<"b">>)
    /\ mgOutAB = None
    /\ mgOutBA = None

\* ------------------------------------------------------------------------
\* merge over files whose identifier records match across canonical keys
\* ------------------------------------------------------------------------
\* Identifier arrays: a VAT number, the same number stored with surrounding
\* whitespace and a differently cased authority, a second number, the first
\* number under two disjoint validity intervals, an internal record and an
\* annulled LEI.
LinkIdLists ==
    LET v1 == MergeIdentifier("vat", <<"x">>, Some(<<"D">>), None, None)
        v1sp == MergeIdentifier("vat", <<" ", "x", " ">>, Some(<<"d">>), None, None)
        v2 == MergeIdentifier("vat", <<"y">>, Some(<<"D">>), None, None)
        v1old == [v1 EXCEPT !.valid_to = Some(Some(1))]
        v1new == [v1 EXCEPT !.valid_from = Some(MaxDate)]
        int == MergeIdentifier("internal", <<"x">>, Some(<<"D">>), None, None)
        lei == MergeIdentifier("lei", LeiValue, None, None,
                               Some(JsonString("ANNULLED")))
    IN  {None, Some(<<v1>>), Some(<<v1sp>>), Some(<<v2, v1>>), Some(<<v1old>>),
         Some(<<v1new>>), Some(<<int>>), Some(<<lei>>)}

\* No edge, or one edge from the first node to the last: supplies, a
\* definite same_as or a possible same_as.
LinkEdgeLists ==
    {<<>>}
    \cup {<<[edge_type |-> t, commodity |-> None, confidence |-> c]>> :
             t \in {"supplies", "same_as"},
             c \in {Some(JsonString("definite")), Some(JsonString("possible"))}}

LinkFile(source_file, ids, il, ks) ==
    [source_file |-> source_file,
     nodes |-> [k \in 1 .. Len(ids) |->
                   [id |-> ids[k], name |-> NameA, identifiers |-> il[k]]],
     edges |-> [k \in 1 .. Len(ks) |->
                   MergeEdgeOf(k, ks[k], ids[1], ids[Len(ids)])]]

\* File a holds up to MaxLinkNodes nodes a, b, ...; file b holds one node z.
InitMergeLinks ==
    /\ \E n \in 1 .. MaxLinkNodes :
         \E il \in [1 .. n -> LinkIdLists] :
           \E ks \in LinkEdgeLists :
             mgA = LinkFile(<<"a">>, [k \in 1 .. n |-> <<NodeIdChars[k]>>], il, ks)
    /\ \E bl \in LinkIdLists :
         mgB = LinkFile(<<"b">>, <<<<"z">>>>, <<bl>>, <<>>)
    /\ mgOutAB = None
    /\ mgOutBA = None

IdleMerge ==
    /\ mgA = None
    /\ mgB = None
    /\ mgOutAB = None
    /\ mgOutBA = None

\* merge(&[a, b])
MergeAB ==
    /\ mgOutAB = None
    /\ mgOutAB' = Some(merge(<<mgA, mgB>>))
    /\ UNCHANGED <<mgA, mgB, mgOutBA>>

\* merge(&[b, a])
MergeBA ==
    /\ mgOutBA = None
    /\ mgOutBA' = Some(merge(<<mgB, mgA>>))
    /\ UNCHANGED <<mgA, mgB, mgOutAB>>

vars == <<coreVars, extVars>>

IdleUF == InitUF /\ InitUFB

\* ------------------------------------------------------------------------
\* merge_identifiers applied to a list of identifier arrays
\* ------------------------------------------------------------------------
\* The records drawn: one DUNS number under two sensitivities (one canonical
\* string, two records), a second DUNS number, and an internal record with
\* an authority.
MergeIdsRecords ==
    {MergeIdentifier("duns", DunsOne, None, Some("public"), None),
     MergeIdentifier("duns", DunsOne, None, Some("confidential"), None),
     MergeIdentifier("duns", DunsTwo, None, None, None),
     MergeIdentifier("internal", <<"x">>, Some(<<"G">>), None, None)}

\* Option<&[Identifier]>: absent, empty, or up to two records.
MergeIdsArrays ==
    {None} \cup {Some(ids) : ids \in UNION {[1 .. n -> MergeIdsRecords] : n \in 0 .. 2}}

MergeIdsNotCalled == [called |-> FALSE, result |-> <<>>]

InitMergeIds ==
    /\ miInputs \in UNION {[1 .. n -> MergeIdsArrays] : n \in 0 .. MaxIdArrays}
    /\ miOut = MergeIdsNotCalled

IdleMergeIds ==
    /\ miInputs = <<>>
    /\ miOut = MergeIdsNotCalled

\* merge_identifiers(&inputs)
MergeIdentifiers ==
    /\ ~miOut.called
    /\ miOut' = [called |-> TRUE, result |-> merge_identifiers(miInputs)]
    /\ UNCHANGED miInputs

\* ------------------------------------------------------------------------
\* zstd framing (compression.rs)
\* ------------------------------------------------------------------------
\* The four bytes every zstd frame starts with.
ZstdMagic == <<40, 181, 47, 253>>

\* compress_zstd: one frame. The frame body stands for the codec's block
\* encoding: the payload length, then the payload stored as it is.
compress_zstd(data) == ZstdMagic \o <<Len(data)>> \o data

\* zstd::Decoder over a byte slice, as a reader: the bytes it yields before
\* the stream ends, and whether the stream ended cleanly or in an error
\* (no magic, a truncated header, a truncated body). Frames may follow one
\* another.
RECURSIVE Decoder(_)
Decoder(data) ==
    IF data = <<>> THEN [yields |-> <<>>, clean |-> TRUE]
    ELSE IF Len(data) < 4 \/ SubSeq(data, 1, 4) # ZstdMagic
         THEN [yields |-> <<>>, clean |-> FALSE]
    ELSE IF Len(data) < 5 THEN [yields |-> <<>>, clean |-> FALSE]
    ELSE LET n == data[5]
             body == SubSeq(data, 6, Len(data))
         IN  IF Len(body) < n THEN [yields |-> body, clean |-> FALSE]
             ELSE LET rest == Decoder(SubSeq(body, n + 1, Len(body)))
                  IN  [yields |-> SubSeq(body, 1, n) \o rest.yields,
                       clean |-> rest.clean]

\* decoder.take(limit).read_to_end(&mut output): stops once limit bytes
\* were read; an error of the stream is met only when it comes earlier.
TakeReadToEnd(stream, limit) ==
    IF Len(stream.yields) >= limit
    THEN [output |-> SubSeq(stream.yields, 1, limit), failed |-> FALSE]
    ELSE [output |-> stream.yields, failed |-> ~stream.clean]

CompressionError(kind, max_size) == [kind |-> kind, max_size |-> max_size]

decompress_zstdReadsAll(data, max_size) ==
    LET stream == Decoder(data)
        read == [output |-> stream.yields, failed |-> ~stream.clean]
    IN  IF read.failed
        THEN [result |-> Err(CompressionError("DecompressionFailed", None)),
              read |-> Len(read.output)]
        ELSE IF Len(read.output) > max_size
             THEN [result |-> Err(CompressionError("SizeLimitExceeded", Some(max_size))),
                   read |-> Len(read.output)]
        ELSE [result |-> Ok(read.output), read |-> Len(read.output)]

\* The outcome of decompress_zstd, with the number of decompressed bytes
\* that were read on the way. limit is max_size + 1, saturating at
\* u64::MAX, which no max_size drawn here comes near.
decompress_zstd(data, max_size) ==
    LET limit == max_size + 1
        read == TakeReadToEnd(Decoder(data), limit)
    IN  IF read.failed
        THEN [result |-> Err(CompressionError("DecompressionFailed", None)),
              read |-> Len(read.output)]
        ELSE IF Len(read.output) > max_size
             THEN [result |-> Err(CompressionError("SizeLimitExceeded", Some(max_size))),
                   read |-> Len(read.output)]
        ELSE [result |-> Ok(read.output), read |-> Len(read.output)]

\* The payloads compressed: up to MaxPayload bytes, each "x" or "{".
ZstdPayloads == UNION {[1 .. n -> {120, 123}] : n \in 0 .. MaxPayload}

\* The byte slices given: whole frames, frames cut short by one byte, two
\* frames in a row, and bytes that are no frame at all.
ZstdInputs ==
    {compress_zstd(b) : b \in ZstdPayloads}
    \cup {SubSeq(compress_zstd(b), 1, 4 + Len(b)) : b \in ZstdPayloads}
    \cup {compress_zstd(b) \o compress_zstd(<<120>>) : b \in ZstdPayloads}
    \cup ZstdPayloads

ZstdNotCalled == [called |-> FALSE, result |-> Ok(<<>>), read |-> 0]

InitZstd ==
    /\ zsData \in ZstdInputs
    /\ zsMax \in 0 .. MaxPayload + 1
    /\ zsOut = ZstdNotCalled

IdleZstd ==
    /\ zsData = <<>>
    /\ zsMax = 0
    /\ zsOut = ZstdNotCalled

\* decompress_zstd(&data, max_size)
DecompressZstd ==
    /\ ~zsOut.called
    /\ zsOut' = [called |-> TRUE] @@ decompress_zstd(zsData, zsMax)
    /\ UNCHANGED <<zsData, zsMax>>

\* ------------------------------------------------------------------------
\* Unified parse pipeline (file_parse.rs)
\* ------------------------------------------------------------------------
\* Whitespace a JSON text may start with: space, tab, line feed, carriage
\* return.
JsonWhitespace == {32, 9, 10, 13}

\* The CBOR self-describing tag.
CborSelfDescribeTag == <<217, 217, 247>>

\* The initial bytes of a CBOR map: major type 5.
CborMapStarts == 160 .. 191

HasPrefix(bytes, prefix) ==
    Len(bytes) >= Len(prefix) /\ SubSeq(bytes, 1, Len(prefix)) = prefix

RECURSIVE SkipWhitespace(_)
SkipWhitespace(bytes) ==
    IF bytes # <<>> /\ Head(bytes) \in JsonWhitespace
    THEN SkipWhitespace(Tail(bytes))
    ELSE bytes

\* detect_encoding: the zstd magic, then the CBOR tag or a CBOR map start,
\* then "{" after optional whitespace; anything else is an error.
detect_encoding(bytes) ==
    IF HasPrefix(bytes, ZstdMagic) THEN Ok("Zstd")
    ELSE IF HasPrefix(bytes, CborSelfDescribeTag) THEN Ok("Cbor")
    ELSE IF bytes # <<>> /\ Head(bytes) \in CborMapStarts THEN Ok("Cbor")
    ELSE IF SkipWhitespace(bytes) # <<>> /\ Head(SkipWhitespace(bytes)) = 123
         THEN Ok("Json")
    ELSE Err("EncodingDetection")

\* The documents the deserializers accept, standing for a whole file each:
\* the JSON text {1} and the CBOR map {1: 1}, with or without the tag.
JsonDocument == <<123, 49, 125>>

CborDocument == <<161, 1, 1>>

ParsedFile == [omts_version |-> 1]

\* serde_json::from_slice::<OmtsFile>
from_slice(bytes) ==
    IF SkipWhitespace(bytes) = JsonDocument THEN Ok(ParsedFile) ELSE Err("Json")

\* decode_cbor
decode_cbor(bytes) ==
    IF bytes = CborDocument \/ bytes = CborSelfDescribeTag \o CborDocument
    THEN Ok(ParsedFile)
    ELSE Err("Cbor")

\* The Cbor and Json arms shared by parse_omts and parse_zstd.
ParseAs(encoding, bytes) ==
    LET file == IF encoding = "Cbor" THEN decode_cbor(bytes) ELSE from_slice(bytes)
    IN  IF IsOk(file) THEN Ok([file |-> file.value, encoding |-> encoding])
        ELSE file

parse_zstdUnwrapsAgain(bytes, max_decompressed) ==
    LET decompressed == decompress_zstd(bytes, max_decompressed).result
    IN  IF ~IsOk(decompressed) THEN Err("Compression")
        ELSE LET inner == detect_encoding(decompressed.value)
             IN  IF ~IsOk(inner) THEN inner
                 ELSE IF inner.value = "Zstd"
                      THEN Ok([file |-> ParsedFile, encoding |-> "Zstd"])
                 ELSE ParseAs(inner.value, decompressed.value)

parse_zstd(bytes, max_decompressed) ==
    LET decompressed == decompress_zstd(bytes, max_decompressed).result
    IN  IF ~IsOk(decompressed) THEN Err("Compression")
        ELSE LET inner == detect_encoding(decompressed.value)
             IN  IF ~IsOk(inner) THEN inner
                 ELSE IF inner.value = "Zstd" THEN Err("NestedCompression")
                 ELSE ParseAs(inner.value, decompressed.value)

parse_omts(bytes, max_decompressed) ==
    LET encoding == detect_encoding(bytes)
    IN  IF ~IsOk(encoding) THEN encoding
        ELSE IF encoding.value = "Zstd" THEN parse_zstd(bytes, max_decompressed)
        ELSE ParseAs(encoding.value, bytes)

\* The uncompressed byte strings drawn: both documents, the tagged CBOR
\* document, JSON after whitespace, a malformed text of either encoding,
\* unrecognised bytes and no bytes.
PlainInputs ==
    {JsonDocument, CborDocument, CborSelfDescribeTag \o CborDocument,
     <<32>> \o JsonDocument, <<123, 125>>, <<161, 1>>, <<120>>, <<>>}

\* The byte strings given: plain, compressed once, compressed twice, and
\* a frame cut short.
ParseInputs ==
    PlainInputs
    \cup {compress_zstd(b) : b \in PlainInputs}
    \cup {compress_zstd(compress_zstd(b)) : b \in PlainInputs}
    \cup {SubSeq(compress_zstd(b), 1, 4 + Len(b)) : b \in PlainInputs}

ParseNotCalled == [called |-> FALSE, result |-> Err("NotCalled")]

InitParse ==
    /\ pzBytes \in ParseInputs
    /\ pzMax \in 0 .. MaxDecompressed
    /\ pzOut = ParseNotCalled

IdleParse ==
    /\ pzBytes = <<>>
    /\ pzMax = 0
    /\ pzOut = ParseNotCalled

\* parse_omts(&bytes, max_decompressed)
ParseOmts ==
    /\ ~pzOut.called
    /\ pzOut' = [called |-> TRUE, result |-> parse_omts(pzBytes, pzMax)]
    /\ UNCHANGED <<pzBytes, pzMax>>

\* ------------------------------------------------------------------------
\* Graph build and subgraph extraction (graph/extraction/mod.rs)
\* ------------------------------------------------------------------------
\* Build: one vertex per node carrying (local_id, data_index), one graph
\* edge per file edge carrying (edge_type, data_index) between the vertices
\* of its endpoints, and the two type indices. Vertices and data indices
\* are positions in the file's sequences.
build_graph(file) ==
    LET vertex(id) == CHOOSE v \in 1 .. Len(file.nodes) : file.nodes[v].id = id
    IN  [node_weights |-> [v \in 1 .. Len(file.nodes) |->
                              [local_id |-> file.nodes[v].id, data_index |-> v]],
         edge_refs |-> [e \in 1 .. Len(file.edges) |->
                          [source |-> vertex(file.edges[e].source),
                           target |-> vertex(file.edges[e].target),
                           edge_type |-> file.edges[e].type,
                           data_index |-> e]],
         by_node_type |-> [t \in {file.nodes[v].type : v \in 1 .. Len(file.nodes)} |->
                              {v \in 1 .. Len(file.nodes) : file.nodes[v].type = t}],
         by_edge_type |-> [t \in {file.edges[e].type : e \in 1 .. Len(file.edges)} |->
                              {e \in 1 .. Len(file.edges) : file.edges[e].type = t}]]

\* OmtsGraph::node_index
node_index(graph, id) ==
    LET found == {v \in DOMAIN graph.node_weights : graph.node_weights[v].local_id = id}
    IN  IF found = {} THEN None ELSE Some(CHOOSE v \in found : TRUE)

\* OmtsGraph::nodes_of_type and edges_of_type
nodes_of_type(graph, node_type) ==
    IF node_type \in DOMAIN graph.by_node_type THEN graph.by_node_type[node_type] ELSE {}

edges_of_type(graph, edge_type) ==
    IF edge_type \in DOMAIN graph.by_edge_type THEN graph.by_edge_type[edge_type] ELSE {}

\* g.edges(current): the targets of the outgoing edges.
OutgoingTargets(graph, current) ==
    LET out == SelectSeq(graph.edge_refs, LAMBDA e : e.source = current)
    IN  [i \in 1 .. Len(out) |-> out[i].target]

\* g.edges_directed(current, Incoming): the sources of the incoming edges.
IncomingSources(graph, current) ==
    LET inc == SelectSeq(graph.edge_refs, LAMBDA e : e.target = current)
    IN  [i \in 1 .. Len(inc) |-> inc[i].source]

\* The match on direction inside the BFS loop.
Neighbours(graph, current, direction) ==
    CASE direction = "Forward" -> OutgoingTargets(graph, current)
      [] direction = "Backward" -> IncomingSources(graph, current)
      [] direction = "Both" ->
            OutgoingTargets(graph, current) \o IncomingSources(graph, current)

\* The inner for loops: every neighbour not yet visited is marked and
\* queued with next_hops.
RECURSIVE VisitNeighbours(_, _, _, _)
VisitNeighbours(neighbours, visited, queue, next_hops) ==
    IF neighbours = <<>> THEN [visited |-> visited, queue |-> queue]
    ELSE IF Head(neighbours) \in visited
         THEN VisitNeighbours(Tail(neighbours), visited, queue, next_hops)
    ELSE VisitNeighbours(Tail(neighbours), visited \cup {Head(neighbours)},
                         Append(queue, <<Head(neighbours), next_hops>>), next_hops)

\* while let Some((current, hops)) = queue.pop_front()
RECURSIVE BfsLoop(_, _, _, _, _)
BfsLoop(graph, queue, visited, limit, direction) ==
    IF queue = <<>> THEN visited
    ELSE LET current == Head(queue)[1]
             hops == Head(queue)[2]
         IN  IF hops >= limit
             THEN BfsLoop(graph, Tail(queue), visited, limit, direction)
             ELSE LET step == VisitNeighbours(Neighbours(graph, current, direction),
                                              visited, Tail(queue), hops + 1)
                  IN  BfsLoop(graph, step.queue, step.visited, limit, direction)

\* The elements of a sequence at the positions kept, in sequence order.
RECURSIVE FilterByIndex(_, _, _)
FilterByIndex(items, keep, i) ==
    IF i > Len(items) THEN <<>>
    ELSE (IF i \in keep THEN <<items[i]>> ELSE <<>>) \o FilterByIndex(items, keep, i + 1)

QueryError(kind, id) == [kind |-> kind, id |-> id]

assemble_subgraphKeepsReportingEntity(graph, file, index_set) ==
    LET included_data_indices == {graph.node_weights[v].data_index : v \in index_set}
        included_edge_data_indices ==
            {graph.edge_refs[e].data_index :
                e \in {x \in DOMAIN graph.edge_refs :
                          /\ graph.edge_refs[x].source \in index_set
                          /\ graph.edge_refs[x].target \in index_set}}
    IN  Ok([file EXCEPT !.nodes = FilterByIndex(file.nodes, included_data_indices, 1),
                        !.edges = FilterByIndex(file.edges, included_edge_data_indices, 1)])

assemble_subgraphAnyEndpoint(graph, file, index_set) ==
    LET included_data_indices == {graph.node_weights[v].data_index : v \in index_set}
        nodes == FilterByIndex(file.nodes, included_data_indices, 1)
        included_edge_data_indices ==
            {graph.edge_refs[e].data_index :
                e \in {x \in DOMAIN graph.edge_refs :
                          \/ graph.edge_refs[x].source \in index_set
                          \/ graph.edge_refs[x].target \in index_set}}
        edges == FilterByIndex(file.edges, included_edge_data_indices, 1)
        included_node_ids == {nodes[i].id : i \in 1 .. Len(nodes)}
        reporting_entity ==
            IF IsSome(file.reporting_entity)
               /\ Unwrap(file.reporting_entity) \in included_node_ids
            THEN file.reporting_entity
            ELSE None
    IN  Ok([omtsf_version |-> file.omtsf_version,
            snapshot_date |-> file.snapshot_date,
            file_salt |-> file.file_salt,
            disclosure_scope |-> file.disclosure_scope,
            previous_snapshot_ref |-> file.previous_snapshot_ref,
            snapshot_sequence |-> file.snapshot_sequence,
            reporting_entity |-> reporting_entity,
            nodes |-> nodes,
            edges |-> edges,
            extra |-> file.extra])

\* assemble_subgraph: the nodes of the index set in file order, the edges
\* leaving a node of the set for a node of the set in file order, the
\* header fields cloned, reporting_entity kept when its node is included.
assemble_subgraph(graph, file, index_set) ==
    LET included_data_indices == {graph.node_weights[v].data_index : v \in index_set}
        nodes == FilterByIndex(file.nodes, included_data_indices, 1)
        included_edge_data_indices ==
            {graph.edge_refs[e].data_index :
                e \in {x \in DOMAIN graph.edge_refs :
                          /\ graph.edge_refs[x].source \in index_set
                          /\ graph.edge_refs[x].target \in index_set}}
        edges == FilterByIndex(file.edges, included_edge_data_indices, 1)
        included_node_ids == {nodes[i].id : i \in 1 .. Len(nodes)}
        reporting_entity ==
            IF IsSome(file.reporting_entity)
               /\ Unwrap(file.reporting_entity) \in included_node_ids
            THEN file.reporting_entity
            ELSE None
    IN  Ok([omtsf_version |-> file.omtsf_version,
            snapshot_date |-> file.snapshot_date,
            file_salt |-> file.file_salt,
            disclosure_scope |-> file.disclosure_scope,
            previous_snapshot_ref |-> file.previous_snapshot_ref,
            snapshot_sequence |-> file.snapshot_sequence,
            reporting_entity |-> reporting_entity,
            nodes |-> nodes,
            edges |-> edges,
            extra |-> file.extra])

\* The for loop of induced_subgraph: the first id the graph does not know
\* ends the call.
RECURSIVE IndexSetOf(_, _, _)
IndexSetOf(graph, node_ids, index_set) ==
    IF node_ids = <<>> THEN Ok(index_set)
    ELSE LET idx == node_index(graph, Head(node_ids))
         IN  IF idx = None THEN Err(QueryError("NodeNotFound", Some(Head(node_ids))))
             ELSE IndexSetOf(graph, Tail(node_ids), index_set \cup {Unwrap(idx)})

induced_subgraph(graph, file, node_ids) ==
    LET index_set == IndexSetOf(graph, node_ids, {})
    IN  IF ~IsOk(index_set) THEN index_set
        ELSE assemble_subgraph(graph, file, index_set.value)

ego_graphUnbounded(graph, file, center, radius, direction) ==
    LET center_idx == node_index(graph, center)
    IN  IF center_idx = None THEN Err(QueryError("NodeNotFound", Some(center)))
        ELSE assemble_subgraph(graph, file,
                 BfsLoop(graph, <<<<Unwrap(center_idx), 0>>>>, {Unwrap(center_idx)},
                         radius + 1, direction))

ego_graph(graph, file, center, radius, direction) ==
    LET center_idx == node_index(graph, center)
    IN  IF center_idx = None THEN Err(QueryError("NodeNotFound", Some(center)))
        ELSE assemble_subgraph(graph, file,
                 BfsLoop(graph, <<<<Unwrap(center_idx), 0>>>>, {Unwrap(center_idx)},
                         radius, direction))

\* SelectorSet: the node-type, edge-type and label-key groups; the other
\* groups stay empty.
SelectorSet(node_types, edge_types, label_keys) ==
    [node_types |-> node_types, edge_types |-> edge_types, label_keys |-> label_keys]

is_empty(ss) == ss.node_types = {} /\ ss.edge_types = {} /\ ss.label_keys = {}

has_node_selectors(ss) == ss.node_types # {} \/ ss.label_keys # {}

has_edge_selectors(ss) == ss.edge_types # {} \/ ss.label_keys # {}

\* Groups are alternatives: an element matches when any group that applies
\* to it names one of its values.
matches_node(ss, node) ==
    node.type \in ss.node_types \/ node.labels \cap ss.label_keys # {}

matches_edge(ss, edge) ==
    edge.type \in ss.edge_types \/ edge.labels \cap ss.label_keys # {}

can_use_node_type_index(ss) == ss.node_types # {} /\ ss.label_keys = {}

can_use_edge_type_index(ss) == ss.edge_types # {} /\ ss.label_keys = {}

\* Phase 1, nodes: the type index or the linear scan.
SeedNodes(graph, file, ss) ==
    IF ~has_node_selectors(ss) THEN {}
    ELSE IF can_use_node_type_index(ss)
         THEN UNION {nodes_of_type(graph, t) : t \in ss.node_types}
    ELSE {Unwrap(node_index(graph, file.nodes[i].id)) :
             i \in {k \in 1 .. Len(file.nodes) : matches_node(ss, file.nodes[k])}}

\* Phase 1, edges: the (source id, target id) pairs of the matched edges.
SeedEdgeNodeIds(graph, file, ss) ==
    IF ~has_edge_selectors(ss) THEN {}
    ELSE IF can_use_edge_type_index(ss)
         THEN {<<graph.node_weights[graph.edge_refs[e].source].local_id,
                 graph.node_weights[graph.edge_refs[e].target].local_id>> :
                  e \in UNION {edges_of_type(graph, t) : t \in ss.edge_types}}
    ELSE {<<file.edges[i].source, file.edges[i].target>> :
             i \in {k \in 1 .. Len(file.edges) : matches_edge(ss, file.edges[k])}}

\* The vertices of a set as a queue at hop 0, in ascending or descending
\* order: two of the orders a HashSet may iterate in.
RECURSIVE SeedQueue(_, _)
SeedQueue(seed_nodes, ascending) ==
    IF seed_nodes = {} THEN <<>>
    ELSE LET first == CHOOSE v \in seed_nodes :
                         \A w \in seed_nodes : IF ascending THEN v <= w ELSE v >= w
         IN  <<<<first, 0>>>> \o SeedQueue(seed_nodes \ {first}, ascending)

selector_subgraphSeedsOnly(graph, file, selectors, expand, ascending) ==
    IF is_empty(selectors)
    THEN assemble_subgraph(graph, file, DOMAIN graph.node_weights)
    ELSE LET matched == SeedNodes(graph, file, selectors)
             seed_edge_node_ids == SeedEdgeNodeIds(graph, file, selectors)
         IN  IF matched = {} /\ seed_edge_node_ids = {}
             THEN Err(QueryError("EmptyResult", None))
             ELSE assemble_subgraph(graph, file,
                      BfsLoop(graph, SeedQueue(matched, ascending), matched, expand, "Both"))

\* selector_subgraph. any_edge_matched is that some pair was pushed: every
\* graph edge has endpoints and both carry a weight.
selector_subgraph(graph, file, selectors, expand, ascending) ==
    IF is_empty(selectors)
    THEN assemble_subgraph(graph, file, DOMAIN graph.node_weights)
    ELSE LET matched == SeedNodes(graph, file, selectors)
             seed_edge_node_ids == SeedEdgeNodeIds(graph, file, selectors)
         IN  IF matched = {} /\ seed_edge_node_ids = {}
             THEN Err(QueryError("EmptyResult", None))
             ELSE LET seed_nodes ==
                          matched
                          \cup {Unwrap(node_index(graph, pair[1])) : pair \in seed_edge_node_ids}
                          \cup {Unwrap(node_index(graph, pair[2])) : pair \in seed_edge_node_ids}
                  IN  assemble_subgraph(graph, file,
                          BfsLoop(graph, SeedQueue(seed_nodes, ascending), seed_nodes,
                                  expand, "Both"))

\* The files drawn. Nodes: a prefix of b (organization), a (facility),
\* c (organization, labelled k). Edges: e1 (supplies), e2 (owns, labelled
\* k), e3 (supplies), each between any two nodes of the file.
GraphNodes ==
    <<[id |-> "b", type |-> "organization", labels |-> {}],
      [id |-> "a", type |-> "facility", labels |-> {}],
      [id |-> "c", type |-> "organization", labels |-> {"k"}]>>

GraphEdgeKinds ==
    <<[id |-> "e1", type |-> "supplies", labels |-> {}],
      [id |-> "e2", type |-> "owns", labels |-> {"k"}],
      [id |-> "e3", type |-> "supplies", labels |-> {}],
      [id |-> "e4", type |-> "owns", labels |-> {}]>>

GraphEdge(i, source, target) ==
    [id |-> GraphEdgeKinds[i].id, type |-> GraphEdgeKinds[i].type,
     labels |-> GraphEdgeKinds[i].labels, source |-> source, target |-> target]

GraphFilesOf(n) ==
    {[omtsf_version |-> "1.0.0",
      snapshot_date |-> "2026-02-19",
      file_salt |-> "deadbeef",
      disclosure_scope |-> Some("partner"),
      previous_snapshot_ref |-> Some("sha256:0"),
      snapshot_sequence |-> Some(7),
      reporting_entity |-> re,
      nodes |-> SubSeq(GraphNodes, 1, n),
      edges |-> [i \in 1 .. Len(ends) |->
                    GraphEdge(i, GraphNodes[ends[i][1]].id, GraphNodes[ends[i][2]].id)],
      extra |-> [x_note |-> "kept"]] :
        re \in {None, Some("a")},
        ends \in UNION {[1 .. m -> (1 .. n) \X (1 .. n)] : m \in 0 .. MaxGraphEdges}}

GraphFiles == UNION {GraphFilesOf(n) : n \in 0 .. Len(GraphNodes)}

\* The ids asked for: those of the three nodes and one no file holds.
GraphIds == {"a", "b", "c", "z"}

Directions == {"Forward", "Backward", "Both"}

\* The selector sets given: none, a node type, a node type no node has, an
\* edge type, a node type with an edge type, a label key.
SelectorSets ==
    {SelectorSet({}, {}, {}),
     SelectorSet({"organization"}, {}, {}),
     SelectorSet({"good"}, {}, {}),
     SelectorSet({}, {"owns"}, {}),
     SelectorSet({"facility"}, {"supplies"}, {}),
     SelectorSet({}, {}, {"k"})}

SubgraphCall(op, node_ids, center, radius, direction, selectors, expand, result) ==
    [op |-> op, node_ids |-> node_ids, center |-> center, radius |-> radius,
     direction |-> direction, selectors |-> selectors, expand |-> expand,
     result |-> result]

SubgraphNotCalled ==
    SubgraphCall("none", <<>>, "", 0, "", SelectorSet({}, {}, {}), 0,
                 Err(QueryError("NotCalled", None)))

InitSubgraph ==
    /\ sgFile \in GraphFiles
    /\ sgOut = SubgraphNotCalled

IdleSubgraph ==
    /\ sgFile = None
    /\ sgOut = SubgraphNotCalled

\* induced_subgraph(&graph, &file, &node_ids)
InducedSubgraph ==
    /\ sgOut.op = "none"
    /\ \E node_ids \in UNION {[1 .. n -> GraphIds] : n \in 0 .. Len(GraphNodes)} :
          sgOut' = [SubgraphNotCalled EXCEPT
                       !.op = "induced", !.node_ids = node_ids,
                       !.result = induced_subgraph(build_graph(sgFile), sgFile, node_ids)]
    /\ UNCHANGED sgFile

\* ego_graph(&graph, &file, center, radius, direction)
EgoGraph ==
    /\ sgOut.op = "none"
    /\ \E center \in GraphIds, radius \in 0 .. MaxHops, direction \in Directions :
          sgOut' = [SubgraphNotCalled EXCEPT
                       !.op = "ego", !.center = center, !.radius = radius,
                       !.direction = direction,
                       !.result = ego_graph(build_graph(sgFile), sgFile, center,
                                            radius, direction)]
    /\ UNCHANGED sgFile

\* selector_subgraph(&graph, &file, &selectors, expand)
SelectorSubgraph ==
    /\ sgOut.op = "none"
    /\ \E selectors \in SelectorSets, expand \in 0 .. MaxHops, ascending \in BOOLEAN :
          sgOut' = [SubgraphNotCalled EXCEPT
                       !.op = "selector", !.selectors = selectors, !.expand = expand,
                       !.result = selector_subgraph(build_graph(sgFile), sgFile,
                                                    selectors, expand, ascending)]
    /\ UNCHANGED sgFile

\* ------------------------------------------------------------------------
\* Selective disclosure rules and redaction
\* ------------------------------------------------------------------------
\* Effective sensitivity: the explicit sensitivity when set, otherwise the
\* default of the scheme.
effective_sensitivity(identifier) ==
    IF IsSome(identifier.sensitivity) THEN Unwrap(identifier.sensitivity)
    ELSE IF identifier.scheme \in {"lei", "duns", "gln", "opaque"} THEN "public"
    ELSE "restricted"

\* L1Sdi02::check, the violates match: what a declared scope forbids.
Violates(scope, eff) ==
    CASE scope = "internal" -> FALSE
      [] scope = "partner" -> eff = "confidential"
      [] scope = "public" -> eff = "confidential" \/ eff = "restricted"

IdentifiersOf(node) ==
    IF node.identifiers = None THEN <<>> ELSE Unwrap(node.identifiers)

\* L1-SDI-01 raises no diagnostic: every boundary_ref node has an identifier
\* array that is not empty, holds exactly one opaque record and no more
\* than one record.
L1Sdi01(file) ==
    \A n \in 1 .. Len(file.nodes) :
        file.nodes[n].type = "boundary_ref" =>
            /\ file.nodes[n].identifiers # None
            /\ LET identifiers == Unwrap(file.nodes[n].identifiers)
                   opaque_count == Len(SelectSeq(identifiers, LAMBDA id : id.scheme = "opaque"))
                   total_count == Len(identifiers)
               IN  /\ total_count # 0
                   /\ ~(opaque_count = 0)
                   /\ ~(opaque_count > 1)
                   /\ ~(total_count > 1)

\* L1-SDI-02 raises no diagnostic: under a declared scope no identifier has
\* an effective sensitivity the scope forbids.
L1Sdi02(file) ==
    IsSome(file.disclosure_scope) =>
        \A n \in 1 .. Len(file.nodes) :
            \A i \in 1 .. Len(IdentifiersOf(file.nodes[n])) :
                ~Violates(Unwrap(file.disclosure_scope),
                          effective_sensitivity(IdentifiersOf(file.nodes[n])[i]))

\* L1-GDM-05 raises no diagnostic: reporting_entity, when present, names an
\* existing organization node.
GdmRule05(file) ==
    IsSome(file.reporting_entity) =>
        \E n \in 1 .. Len(file.nodes) :
            /\ file.nodes[n].id = Unwrap(file.reporting_entity)
            /\ file.nodes[n].type = "organization"

\* The L1 rules a redacted file is held to.
RedactL1Valid(file) ==
    L1Valid(file) /\ GdmRule05(file) /\ L1Sdi01(file) /\ L1Sdi02(file)

\* blake3(file_salt || original_id) in hex: a digest that differs for
\* different ids and is no id of the file.
Blake3Hex(file_salt, original_id) ==
    CASE original_id = "a" -> "9a"
      [] original_id = "b" -> "9b"

\* The synthesized boundary_ref: its only identifier is the opaque digest,
\* and it carries no other field.
BoundaryRef(file_salt, original_id) ==
    [id |-> Blake3Hex(file_salt, original_id),
     type |-> "boundary_ref",
     identifiers |-> Some(<<[scheme |-> "opaque",
                             value |-> Blake3Hex(file_salt, original_id),
                             authority |-> None,
                             sensitivity |-> None]>>)]

\* A kept node: its identifiers above the ceiling of the target scope are
\* dropped.
RetainedNode(node, target_scope) ==
    IF node.identifiers = None THEN node
    ELSE [node EXCEPT !.identifiers =
             Some(SelectSeq(Unwrap(node.identifiers),
                            LAMBDA id : ~Violates(target_scope, effective_sensitivity(id))))]

\* redact(file, target_scope, retain_node_ids)
redact(file, target_scope, retain_node_ids) ==
    LET kept(id) == id \in retain_node_ids
        new_id(id) == IF kept(id) THEN id ELSE Blake3Hex(file.file_salt, id)
    IN  [file_salt |-> file.file_salt,
         disclosure_scope |-> Some(target_scope),
         reporting_entity |->
             IF IsSome(file.reporting_entity) /\ kept(Unwrap(file.reporting_entity))
             THEN file.reporting_entity
             ELSE None,
         nodes |-> [n \in 1 .. Len(file.nodes) |->
                       IF kept(file.nodes[n].id)
                       THEN RetainedNode(file.nodes[n], target_scope)
                       ELSE BoundaryRef(file.file_salt, file.nodes[n].id)],
         edges |-> [e \in 1 .. Len(file.edges) |->
                       [file.edges[e] EXCEPT !.source = new_id(file.edges[e].source),
                                             !.target = new_id(file.edges[e].target)]]]

\* The files drawn: a prefix of the nodes a and b, each an organization, a
\* facility or a boundary_ref with one of six identifier arrays, up to
\* MaxRedactEdges edges between them, with or without a reporting entity
\* and a declared scope; those that pass L1.
RedactIdentifier(scheme, value, authority, sensitivity) ==
    [scheme |-> scheme, value |-> value, authority |-> authority,
     sensitivity |-> sensitivity]

RedactIdentifierArrays ==
    LET lei == RedactIdentifier("lei", "L", None, None)
        internal == RedactIdentifier("internal", "i", Some("sap"), None)
        duns == RedactIdentifier("duns", "1", None, Some("confidential"))
        opaque == RedactIdentifier("opaque", "o", None, None)
        sealed == RedactIdentifier("opaque", "o", None, Some("confidential"))
    IN  {None, Some(<<lei>>), Some(<<lei, internal>>), Some(<<duns>>),
         Some(<<opaque>>), Some(<<sealed>>)}

RedactNodeIds == <<"a", "b">>

RedactNodeTypes == {"organization", "facility", "boundary_ref"}

RedactEdgeIds == <<"e1", "e2", "e3">>

RedactFilesOf(n) ==
    {[file_salt |-> "5a17",
      disclosure_scope |-> scope,
      reporting_entity |-> re,
      nodes |-> [i \in 1 .. n |-> [id |-> RedactNodeIds[i], type |-> shape[i][1],
                                   identifiers |-> shape[i][2]]],
      edges |-> [i \in 1 .. Len(ends) |->
                    [id |-> RedactEdgeIds[i], type |-> "supplies",
                     source |-> RedactNodeIds[ends[i][1]],
                     target |-> RedactNodeIds[ends[i][2]]]]] :
        scope \in {None, Some("partner")},
        re \in {None, Some("a")},
        shape \in [1 .. n -> RedactNodeTypes \X RedactIdentifierArrays],
        ends \in UNION {[1 .. m -> (1 .. n) \X (1 .. n)] : m \in 0 .. MaxRedactEdges}}

RedactFiles ==
    {file \in UNION {RedactFilesOf(n) : n \in 0 .. Len(RedactNodeIds)} :
        RedactL1Valid(file)}

RedactNotCalled == [called |-> FALSE, target_scope |-> "", retain |-> {}, file |-> None]

InitRedact ==
    /\ rdFile \in RedactFiles
    /\ rdOut = RedactNotCalled

IdleRedact ==
    /\ rdFile = None
    /\ rdOut = RedactNotCalled

\* redact(&file, target_scope, &retain_node_ids)
Redact ==
    /\ ~rdOut.called
    /\ \E target_scope \in {"internal", "partner", "public"},
          retain \in SUBSET {"a", "b", "z"} :
          rdOut' = [called |-> TRUE, target_scope |-> target_scope, retain |-> retain,
                    file |-> redact(rdFile, target_scope, retain)]
    /\ UNCHANGED rdFile

\* ------------------------------------------------------------------------
\* L1 validation rules as run by validate: the diagnostics they append
\* ------------------------------------------------------------------------
LocationNode(node_id, field) == [kind |-> "Node", id |-> node_id, field |-> field]

LocationEdge(edge_id, field) == [kind |-> "Edge", id |-> edge_id, field |-> field]

\* Diagnostic::new(rule_id, Severity::Error, location, message); the message
\* is kept as the text that does not depend on the ids.
Diagnostic(rule_id, location, message) ==
    [rule_id |-> rule_id, severity |-> "Error", location |-> location,
     message |-> message]

\* The mutant that counts only the opaque identifiers.
L1Sdi01NodeOpaqueOnly(node) ==
    LET diag(message) ==
            Diagnostic("L1Sdi01", LocationNode(node.id, Some("identifiers")), message)
    IN  IF node.type # "boundary_ref" THEN <<>>
        ELSE IF node.identifiers = None THEN <<diag("has no identifiers")>>
        ELSE LET opaque_count ==
                     Len(SelectSeq(Unwrap(node.identifiers), LAMBDA id : id.scheme = "opaque"))
             IN  IF opaque_count = 0
                    THEN <<diag("has no identifier with scheme opaque")>>
                 ELSE IF opaque_count > 1
                    THEN <<diag("has opaque_count identifiers with scheme opaque")>>
                 ELSE <<>>

\* The body of the loop of L1Sdi01::check for one node.
L1Sdi01Node(node) ==
    LET diag(message) ==
            Diagnostic("L1Sdi01", LocationNode(node.id, Some("identifiers")), message)
    IN  IF node.type # "boundary_ref" THEN <<>>
        ELSE IF node.identifiers = None THEN <<diag("has no identifiers")>>
        ELSE LET identifiers == Unwrap(node.identifiers)
                 opaque_count ==
                     Len(SelectSeq(identifiers, LAMBDA id : id.scheme = "opaque"))
                 total_count == Len(identifiers)
             IN  IF total_count = 0 THEN <<diag("has an empty identifiers array")>>
                 ELSE (IF opaque_count = 0
                          THEN <<diag("has no identifier with scheme opaque")>>
                       ELSE IF opaque_count > 1
                          THEN <<diag("has opaque_count identifiers with scheme opaque")>>
                       ELSE <<>>)
                      \o (IF total_count > 1
                             THEN <<diag("has total_count identifiers")>>
                          ELSE <<>>)

\* L1Sdi01::check from node i on.
RECURSIVE L1Sdi01From(_, _)
L1Sdi01From(file, i) ==
    IF i > Len(file.nodes) THEN <<>>
    ELSE L1Sdi01Node(file.nodes[i]) \o L1Sdi01From(file, i + 1)

L1Sdi01Check(file) == L1Sdi01From(file, 1)

\* The mutant that returns at the first duplicate.
RECURSIVE GdmRule01FirstOnly(_, _, _)
GdmRule01FirstOnly(file, i, seen) ==
    IF i > Len(file.nodes) THEN <<>>
    ELSE LET id == file.nodes[i].id
         IN  IF id \in seen
                THEN <<Diagnostic("L1Gdm01", LocationNode(id, None), "duplicate node id")>>
             ELSE GdmRule01FirstOnly(file, i + 1, seen \cup {id})

\* GdmRule01::check from node i on, seen being the ids met so far.
RECURSIVE GdmRule01From(_, _, _)
GdmRule01From(file, i, seen) ==
    IF i > Len(file.nodes) THEN <<>>
    ELSE LET id == file.nodes[i].id
         IN  (IF id \in seen
                 THEN <<Diagnostic("L1Gdm01", LocationNode(id, None), "duplicate node id")>>
              ELSE <<>>)
             \o GdmRule01From(file, i + 1, seen \cup {id})

GdmRule01Check(file) == GdmRule01From(file, 1, {})

\* GdmRule02::check from edge i on.
RECURSIVE GdmRule02From(_, _, _)
GdmRule02From(file, i, seen) ==
    IF i > Len(file.edges) THEN <<>>
    ELSE LET id == file.edges[i].id
         IN  (IF id \in seen
                 THEN <<Diagnostic("L1Gdm02", LocationEdge(id, None), "duplicate edge id")>>
              ELSE <<>>)
             \o GdmRule02From(file, i + 1, seen \cup {id})

GdmRule02Check(file) == GdmRule02From(file, 1, {})

\* GdmRule03::check from edge i on.
RECURSIVE GdmRule03From(_, _, _)
GdmRule03From(file, i, node_ids) ==
    IF i > Len(file.edges) THEN <<>>
    ELSE LET edge == file.edges[i]
         IN  (IF edge.source \notin node_ids
                 THEN <<Diagnostic("L1Gdm03", LocationEdge(edge.id, Some("source")),
                                   "source does not reference an existing node")>>
              ELSE <<>>)
             \o (IF edge.target \notin node_ids
                    THEN <<Diagnostic("L1Gdm03", LocationEdge(edge.id, Some("target")),
                                      "target does not reference an existing node")>>
                 ELSE <<>>)
             \o GdmRule03From(file, i + 1, node_ids)

GdmRule03Check(file) ==
    GdmRule03From(file, 1, {file.nodes[i].id : i \in 1 .. Len(file.nodes)})

\* node_id_map: collecting into a HashMap keeps, for an id met twice, the
\* later node.
node_id_map(file) ==
    [id \in {file.nodes[i].id : i \in 1 .. Len(file.nodes)} |->
        file.nodes[CHOOSE i \in 1 .. Len(file.nodes) :
                      /\ file.nodes[i].id = id
                      /\ \A j \in 1 .. Len(file.nodes) : file.nodes[j].id = id => j <= i]]

\* NodeTypeTag::Known: the seven node types of the enumeration; any other
\* tag is an extension.
KnownNodeTypes ==
    {"organization", "facility", "good", "person", "attestation", "consignment",
     "boundary_ref"}

\* permitted_types: the source and target node types of a core edge type,
\* None for same_as.
permitted_types(edge_type) ==
    LET org == {"organization"}
        org_fac == {"organization", "facility"}
        fac == {"facility"}
        good_cons == {"good", "consignment"}
        org_fac_good_cons == {"organization", "facility", "good", "consignment"}
        att == {"attestation"}
        person == {"person"}
    IN  CASE edge_type = "ownership" -> Some(<<org, org>>)
          [] edge_type = "operational_control" -> Some(<<org, org_fac>>)
          [] edge_type = "legal_parentage" -> Some(<<org, org>>)
          [] edge_type = "former_identity" -> Some(<<org, org>>)
          [] edge_type = "beneficial_ownership" -> Some(<<person, org>>)
          [] edge_type = "supplies" -> Some(<<org, org>>)
          [] edge_type = "subcontracts" -> Some(<<org, org>>)
          [] edge_type = "tolls" -> Some(<<org_fac, org>>)
          [] edge_type = "distributes" -> Some(<<org, org>>)
          [] edge_type = "brokers" -> Some(<<org, org>>)
          [] edge_type = "operates" -> Some(<<org, fac>>)
          [] edge_type = "produces" -> Some(<<fac, good_cons>>)
          [] edge_type = "composed_of" -> Some(<<good_cons, good_cons>>)
          [] edge_type = "sells_to" -> Some(<<org, org>>)
          [] edge_type = "attested_by" -> Some(<<org_fac_good_cons, att>>)
          [] edge_type = "same_as" -> None

\* The test of one endpoint in GdmRule06::check: nothing for an id no node
\* has, for an extension node type, for a boundary_ref or a permitted type.
GdmRule06Endpoint(node_map, edge, field, endpoint_id, permitted) ==
    IF endpoint_id \notin DOMAIN node_map THEN <<>>
    ELSE IF node_map[endpoint_id].type \notin KnownNodeTypes THEN <<>>
    ELSE LET is_boundary_ref == node_map[endpoint_id].type = "boundary_ref"
         IN  IF ~is_boundary_ref /\ node_map[endpoint_id].type \notin permitted
                THEN <<Diagnostic("L1Gdm06", LocationEdge(edge.id, Some(field)),
                                  "has a type which is not permitted")>>
             ELSE <<>>

\* GdmRule06::check from edge i on.
RECURSIVE GdmRule06From(_, _, _)
GdmRule06From(file, i, node_map) ==
    IF i > Len(file.edges) THEN <<>>
    ELSE LET edge == file.edges[i]
         IN  (IF edge.type \notin KnownEdgeTypes THEN <<>>
              ELSE IF permitted_types(edge.type) = None THEN <<>>
              ELSE GdmRule06Endpoint(node_map, edge, "source", edge.source,
                                     Unwrap(permitted_types(edge.type))[1])
                   \o GdmRule06Endpoint(node_map, edge, "target", edge.target,
                                        Unwrap(permitted_types(edge.type))[2]))
             \o GdmRule06From(file, i + 1, node_map)

GdmRule06Check(file) == GdmRule06From(file, 1, node_id_map(file))

\* The node shapes drawn: an organization, a facility, a person, a node of
\* an extension type, and a boundary_ref with no identifier array, an empty
\* one, one opaque record, one lei record, two opaque records, an opaque
\* and a lei record.
ExtensionNodeType == "com.acme.depot"

ValOpaque == RedactIdentifier("opaque", "o", None, None)

ValOpaqueTwo == RedactIdentifier("opaque", "p", None, None)

ValLei == RedactIdentifier("lei", "L", None, None)

ValNodeShapes ==
    {<<"organization", None>>, <<"facility", Some(<<ValLei>>)>>,
     <<"person", Some(<<ValOpaque>>)>>, <<ExtensionNodeType, Some(<<>>)>>,
     <<"boundary_ref", None>>, <<"boundary_ref", Some(<<>>)>>,
     <<"boundary_ref", Some(<<ValOpaque>>)>>, <<"boundary_ref", Some(<<ValLei>>)>>,
     <<"boundary_ref", Some(<<ValOpaque, ValOpaqueTwo>>)>>,
     <<"boundary_ref", Some(<<ValOpaque, ValLei>>)>>}

ValNode(id, shape) == [id |-> id, type |-> shape[1], identifiers |-> shape[2]]

\* Files of nodes: up to MaxValNodes nodes of any shape with ids a and b,
\* so that ids repeat, and no edge.
ValNodeFile(n, ids, shapes) ==
    [nodes |-> [i \in 1 .. n |-> ValNode(ids[i], shapes[i])], edges |-> <<>>]

\* Files of edges: one of six node lists and up to MaxValEdges edges between
\* a, b and the id z of no node. Either the edges are supplies edges with
\* ids e and f, so that ids repeat, or they have the ids e, f, g, h in this
\* order and a type with organization endpoints, one with a facility
\* target, one with a person source, same_as or an extension type.
ValNodeLists ==
    {<<>>,
     <<ValNode("a", <<"organization", None>>), ValNode("b", <<"facility", None>>)>>,
     <<ValNode("a", <<"person", None>>), ValNode("b", <<"organization", None>>)>>,
     <<ValNode("a", <<"boundary_ref", Some(<<ValOpaque>>)>>),
       ValNode("b", <<ExtensionNodeType, None>>)>>,
     <<ValNode("a", <<"organization", None>>), ValNode("a", <<"facility", None>>)>>,
     <<ValNode("b", <<"organization", None>>)>>}

ValEdgeTypes == {"supplies", "operates", "beneficial_ownership", "same_as", ExtensionEdgeType}

ValEndpoints == {<<"a", "b">>, <<"b", "a">>, <<"a", "a">>, <<"a", "z">>, <<"z", "z">>}

ValEdgeIds == <<"e", "f", "g", "h">>

ValEdge(id, type, ends) == [id |-> id, type |-> type, source |-> ends[1], target |-> ends[2]]

ValRepeatedEdges(m, ids, ends) == [i \in 1 .. m |-> ValEdge(ids[i], "supplies", ends[i])]

ValTypedEdges(m, types, ends) == [i \in 1 .. m |-> ValEdge(ValEdgeIds[i], types[i], ends[i])]

ValidateNotCalled ==
    [called |-> FALSE, sdi01 |-> <<>>, gdm01 |-> <<>>, gdm02 |-> <<>>, gdm03 |-> <<>>,
     gdm06 |-> <<>>]

InitValidate ==
    /\ \/ \E n \in 0 .. MaxValNodes :
             \E ids \in [1 .. n -> {"a", "b"}], shapes \in [1 .. n -> ValNodeShapes] :
                vlFile = ValNodeFile(n, ids, shapes)
       \/ \E nodes \in ValNodeLists, m \in 0 .. MaxValEdges :
             \E ends \in [1 .. m -> ValEndpoints] :
                \/ \E ids \in [1 .. m -> {"e", "f"}] :
                      vlFile = [nodes |-> nodes, edges |-> ValRepeatedEdges(m, ids, ends)]
                \/ \E types \in [1 .. m -> ValEdgeTypes] :
                      vlFile = [nodes |-> nodes, edges |-> ValTypedEdges(m, types, ends)]
    /\ vlOut = ValidateNotCalled

IdleValidate ==
    /\ vlFile = None
    /\ vlOut = ValidateNotCalled

\* validate(&file, &config, None) with the L1 rules registered: every rule
\* appends its diagnostics.
Validate ==
    /\ ~vlOut.called
    /\ vlOut' = [called |-> TRUE,
                 sdi01 |-> L1Sdi01Check(vlFile),
                 gdm01 |-> GdmRule01Check(vlFile),
                 gdm02 |-> GdmRule02Check(vlFile),
                 gdm03 |-> GdmRule03Check(vlFile),
                 gdm06 |-> GdmRule06Check(vlFile)]
    /\ UNCHANGED vlFile

\* ------------------------------------------------------------------------
\* Diff: scalar comparison (diff/compare.rs)
\* ------------------------------------------------------------------------
\* NUMERIC_EPSILON, 1e-9, in the unit of the numbers drawn, 1e-10.
NumericEpsilon == 10

\* str::contains(char)
Contains(s, c) == \E i \in 1 .. Len(s) : s[i] = c

\* s.splitn(3, '-'): the text before the first hyphen, between the first
\* and the second, and all that follows the second.
SplitN3(s) ==
    LET hyphens == {i \in 1 .. Len(s) : s[i] = "-"}
        first == CHOOSE i \in hyphens : \A j \in hyphens : i <= j
        second == CHOOSE i \in hyphens \ {first} : \A j \in hyphens \ {first} : i <= j
    IN  IF hyphens = {} THEN <<s>>
        ELSE IF Cardinality(hyphens) = 1
           THEN <<SubSeq(s, 1, first - 1), SubSeq(s, first + 1, Len(s))>>
        ELSE <<SubSeq(s, 1, first - 1), SubSeq(s, first + 1, second - 1),
               SubSeq(s, second + 1, Len(s))>>

\* str::trim_start_matches('0')
RECURSIVE TrimStartZeros(_)
TrimStartZeros(s) ==
    IF s # <<>> /\ Head(s) = "0" THEN TrimStartZeros(Tail(s)) ELSE s

IsDigit(c) == c \in {"0", "1", "2", "3", "4", "5", "6", "7", "8", "9"}

DigitValue(c) == CharCode(c) - CharCode("0")

RECURSIVE DecimalValue(_)
DecimalValue(s) ==
    IF s = <<>> THEN 0
    ELSE 10 * DecimalValue(SubSeq(s, 1, Len(s) - 1)) + DigitValue(s[Len(s)])

\* str::parse::<u32>: an optional plus sign and at least one digit; the
\* strings drawn are too short to overflow.
ParseU32(s) ==
    LET digits == IF s # <<>> /\ Head(s) = "+" THEN Tail(s) ELSE s
    IN  IF digits # <<>> /\ \A i \in 1 .. Len(digits) : IsDigit(digits[i])
           THEN Ok(DecimalValue(digits))
        ELSE Err("ParseIntError")

\* the format specification 0>2 on a string: zeros on the left up to two
\* characters.
PadZero2(s) ==
    IF Len(s) = 0 THEN <<"0", "0">> ELSE IF Len(s) = 1 THEN <<"0">> \o s ELSE s

\* the format specification 02 on a number
FormatU32Width2(n) == PadZero2(Digits(n))

\* One of the month and day parts as normalise_date rewrites it.
NormalisePart(part) ==
    LET parsed == ParseU32(TrimStartZeros(part))
    IN  PadZero2(IF IsOk(parsed) THEN FormatU32Width2(parsed.value) ELSE part)

normalise_date(s) ==
    LET parts == SplitN3(s)
    IN  IF Len(parts) = 3
           THEN parts[1] \o <<"-">> \o NormalisePart(parts[2]) \o <<"-">>
                    \o NormalisePart(parts[3])
        ELSE s

Abs(n) == IF n < 0 THEN -n ELSE n

values_equal(a, b) ==
    IF a.kind = "number" /\ b.kind = "number" THEN Abs(a.n - b.n) < NumericEpsilon
    ELSE IF a.kind = "string" /\ b.kind = "string"
       THEN IF Contains(a.s, "-") /\ Contains(b.s, "-")
               THEN normalise_date(a.s) = normalise_date(b.s)
            ELSE a.s = b.s
    ELSE a = b

PropertyChange(field, old_value, new_value) ==
    [field |-> field, old_value |-> old_value, new_value |-> new_value]

maybe_change(field, old_value, new_value, out) ==
    LET equal == IF old_value = None /\ new_value = None THEN TRUE
                 ELSE IF old_value # None /\ new_value # None
                    THEN values_equal(Unwrap(old_value), Unwrap(new_value))
                 ELSE FALSE
    IN  IF ~equal THEN Append(out, PropertyChange(field, old_value, new_value)) ELSE out

\* The values drawn: absent, the numbers 0, 0.5e-9 and 1e-9, and strings of
\* up to MaxDiffParts parts joined by hyphens, a part being 7, 07, 12, x,
\* 0x or empty.
DiffParts == {<<"7">>, <<"0", "7">>, <<"1", "2">>, <<"x">>, <<"0", "x">>, <<>>}

RECURSIVE JoinHyphen(_)
JoinHyphen(parts) ==
    IF Len(parts) = 1 THEN parts[1]
    ELSE parts[1] \o <<"-">> \o JoinHyphen(Tail(parts))

DiffStrings ==
    {JoinHyphen(parts) : parts \in UNION {[1 .. n -> DiffParts] : n \in 1 .. MaxDiffParts}}

DiffValues ==
    {None} \cup {Some(JsonNumber(n)) : n \in {0, 5, 10}}
           \cup {Some(JsonString(str)) : str \in DiffStrings}

DiffNotCalled == [called |-> FALSE, changes |-> <<>>]

InitDiff ==
    /\ dfOld \in DiffValues
    /\ dfNew \in DiffValues
    /\ dfOut = DiffNotCalled

IdleDiff ==
    /\ dfOld = None
    /\ dfNew = None
    /\ dfOut = DiffNotCalled

\* maybe_change("valid_from", old_value, new_value, &mut out) on an empty out
MaybeChange ==
    /\ ~dfOut.called
    /\ dfOut' = [called |-> TRUE, changes |-> maybe_change("valid_from", dfOld, dfNew, <<>>)]
    /\ UNCHANGED <<dfOld, dfNew>>

IdleCore == IdleUF /\ IdleId /\ IdleEdge /\ IdleSameAs /\ IdleScalars /\ IdleMerge

IdleExt ==
    /\ IdleMergeIds /\ IdleZstd /\ IdleParse /\ IdleSubgraph /\ IdleRedact /\ IdleValidate
    /\ IdleDiff


\* ------------------------------------------------------------------------
\* Specifications
\* ------------------------------------------------------------------------
\* One union-find driven by arbitrary find and union calls.
NextUF ==
    \/ \E x \in Elems : Find(x) /\ UNCHANGED <<ufBVars, idVars, edgeVars, saVars, scVars, mgVars, extVars>>
    \/ \E a, b \in Elems :
          /\ Cardinality(united \cup Pair(a, b)) <= MaxUnions
          /\ Union(a, b)
          /\ UNCHANGED <<ufBVars, idVars, edgeVars, saVars, scVars, mgVars, extVars>>

InitSpecUF == InitUF /\ InitUFB /\ IdleId /\ IdleEdge /\ IdleSameAs /\ IdleScalars /\ IdleMerge /\ IdleExt

SpecUF == InitSpecUF /\ [][NextUF]_vars

\* Two union-finds, each fed union calls in its own order.
NextUFPair ==
    \/ /\ Cardinality(united) < MaxPairUnions
       /\ \E a, b \in Elems : Union(a, b) /\ UNCHANGED <<ufBVars, idVars, edgeVars, saVars, scVars, mgVars, extVars>>
    \/ /\ Cardinality(unitedB) < MaxPairUnions
       /\ \E a, b \in Elems : UnionB(a, b) /\ UNCHANGED <<ufVars, idVars, edgeVars, saVars, scVars, mgVars, extVars>>

SpecUFPair == InitSpecUF /\ [][NextUFPair]_vars

\* The identity predicates applied to one pair of Identifier records.
NextId == MatchIdentifiers /\ UNCHANGED <<ufVars, ufBVars, edgeVars, saVars, scVars, mgVars, extVars>>

InitSpecId == InitId /\ IdleUF /\ IdleEdge /\ IdleSameAs /\ IdleScalars /\ IdleMerge /\ IdleExt

SpecId == InitSpecId /\ [][NextId]_vars

\* edges_match applied to one pair of edges.
NextEdge == EdgesMatch /\ UNCHANGED <<ufVars, ufBVars, idVars, saVars, scVars, mgVars, extVars>>

InitSpecEdge == InitEdge /\ IdleUF /\ IdleId /\ IdleSameAs /\ IdleScalars /\ IdleMerge /\ IdleExt

SpecEdge == InitSpecEdge /\ [][NextEdge]_vars

\* apply_same_as_edges applied to one edge list.
NextSameAs == ApplySameAs /\ UNCHANGED <<ufVars, ufBVars, idVars, edgeVars, scVars, mgVars, extVars>>

InitSpecSameAs ==
    InitSameAs /\ IdleUF /\ IdleId /\ IdleEdge /\ IdleScalars /\ IdleMerge /\ IdleExt

SpecSameAs == InitSpecSameAs /\ [][NextSameAs]_vars

\* apply_same_as_edges called once on a union-find the identifier pass has
\* been through.
InitSpecSameAsFrame ==
    InitSameAsFrame /\ IdleUF /\ IdleId /\ IdleEdge /\ IdleScalars /\ IdleMerge /\ IdleExt

SpecSameAsFrame == InitSpecSameAsFrame /\ [][NextSameAs]_vars

\* merge_scalars applied to one input list.
NextScalars == MergeScalars /\ UNCHANGED <<ufVars, ufBVars, idVars, edgeVars, saVars, mgVars, extVars>>

InitSpecScalars ==
    InitScalars /\ IdleUF /\ IdleId /\ IdleEdge /\ IdleSameAs /\ IdleMerge /\ IdleExt

SpecScalars == InitSpecScalars /\ [][NextScalars]_vars

\* merge applied to one file given twice.
NextMergeSelf ==
    MergeAB /\ UNCHANGED <<ufVars, ufBVars, idVars, edgeVars, saVars, scVars, extVars>>

InitSpecMergeSelf ==
    InitMergeSelf /\ IdleUF /\ IdleId /\ IdleEdge /\ IdleSameAs /\ IdleScalars /\ IdleExt

SpecMergeSelf == InitSpecMergeSelf /\ [][NextMergeSelf]_vars

\* merge applied to files whose records match across canonical keys.
InitSpecMergeLinks ==
    InitMergeLinks /\ IdleUF /\ IdleId /\ IdleEdge /\ IdleSameAs /\ IdleScalars /\ IdleExt

SpecMergeLinks == InitSpecMergeLinks /\ [][NextMergeSelf]_vars

\* merge applied to two files in both orders.
NextMergePair ==
    \/ MergeAB /\ UNCHANGED <<ufVars, ufBVars, idVars, edgeVars, saVars, scVars, extVars>>
    \/ MergeBA /\ UNCHANGED <<ufVars, ufBVars, idVars, edgeVars, saVars, scVars, extVars>>

InitSpecMergePair ==
    InitMergePair /\ IdleUF /\ IdleId /\ IdleEdge /\ IdleSameAs /\ IdleScalars /\ IdleExt

SpecMergePair == InitSpecMergePair /\ [][NextMergePair]_vars

\* merge_identifiers applied to one list of identifier arrays.
NextMergeIds == MergeIdentifiers /\ UNCHANGED <<coreVars, zsVars, pzVars, sgVars, rdVars, vlVars, dfVars>>

InitSpecMergeIds == InitMergeIds /\ IdleCore /\ IdleZstd /\ IdleParse /\ IdleSubgraph /\ IdleRedact /\ IdleValidate /\ IdleDiff

SpecMergeIds == InitSpecMergeIds /\ [][NextMergeIds]_vars

\* decompress_zstd applied to one byte slice under one size limit.
NextZstd == DecompressZstd /\ UNCHANGED <<coreVars, miVars, pzVars, sgVars, rdVars, vlVars, dfVars>>

InitSpecZstd == InitZstd /\ IdleCore /\ IdleMergeIds /\ IdleParse /\ IdleSubgraph /\ IdleRedact /\ IdleValidate /\ IdleDiff

SpecZstd == InitSpecZstd /\ [][NextZstd]_vars

\* parse_omts applied to one byte string under one decompression ceiling.
NextParse == ParseOmts /\ UNCHANGED <<coreVars, miVars, zsVars, sgVars, rdVars, vlVars, dfVars>>

InitSpecParse == InitParse /\ IdleCore /\ IdleMergeIds /\ IdleZstd /\ IdleSubgraph /\ IdleRedact /\ IdleValidate /\ IdleDiff

SpecParse == InitSpecParse /\ [][NextParse]_vars

\* One extraction call on the graph built from one file.
NextSubgraph ==
    \/ InducedSubgraph /\ UNCHANGED <<coreVars, miVars, zsVars, pzVars, rdVars, vlVars, dfVars>>
    \/ EgoGraph /\ UNCHANGED <<coreVars, miVars, zsVars, pzVars, rdVars, vlVars, dfVars>>
    \/ SelectorSubgraph /\ UNCHANGED <<coreVars, miVars, zsVars, pzVars, rdVars, vlVars, dfVars>>

InitSpecSubgraph == InitSubgraph /\ IdleCore /\ IdleMergeIds /\ IdleZstd /\ IdleParse /\ IdleRedact /\ IdleValidate /\ IdleDiff

SpecSubgraph == InitSpecSubgraph /\ [][NextSubgraph]_vars

\* redact applied once to one L1-valid file.
NextRedact == Redact /\ UNCHANGED <<coreVars, miVars, zsVars, pzVars, sgVars, vlVars, dfVars>>

InitSpecRedact ==
    InitRedact /\ IdleCore /\ IdleMergeIds /\ IdleZstd /\ IdleParse /\ IdleSubgraph /\ IdleValidate /\ IdleDiff

SpecRedact == InitSpecRedact /\ [][NextRedact]_vars

\* validate applied once to one file.
NextValidate == Validate /\ UNCHANGED <<coreVars, miVars, zsVars, pzVars, sgVars, rdVars, dfVars>>

InitSpecValidate ==
    /\ InitValidate /\ IdleCore
    /\ IdleMergeIds /\ IdleZstd /\ IdleParse /\ IdleSubgraph /\ IdleRedact /\ IdleDiff

SpecValidate == InitSpecValidate /\ [][NextValidate]_vars

\* maybe_change called once on one pair of values.
NextDiff ==
    MaybeChange /\ UNCHANGED <<coreVars, miVars, zsVars, pzVars, sgVars, rdVars, vlVars>>

InitSpecDiff ==
    /\ InitDiff /\ IdleCore
    /\ IdleMergeIds /\ IdleZstd /\ IdleParse /\ IdleSubgraph /\ IdleRedact /\ IdleValidate

SpecDiff == InitSpecDiff /\ [][NextDiff]_vars

\* ------------------------------------------------------------------------
\* Union-find properties
\* ------------------------------------------------------------------------
\* The elements linked to S by the united pairs U (reflexive, symmetric,
\* transitive closure), computed from the history alone.
RECURSIVE Component(_, _)
Component(S, U) ==
    LET T == S \cup {y \in Elems : \E x \in S : {x, y} \in U}
    IN  IF T = S THEN S ELSE Component(T, U)

Connected(U, a, b) == b \in Component({a}, U)

\* C3: the same collection of union calls, applied in any order and with
\* either argument order, gives the same find(x) for every element x.
C3_SameCallsSameRepresentative ==
    (united = unitedB) =>
        \A x \in Elems : Rep(parent, x) = Rep(parentB, x)

\* C4: find(a) = find(b) exactly when a and b are connected by the union
\* calls made so far, and a find call changes no element's representative.
C4_RepIffConnected ==
    /\ [](\A a, b \in Elems :
            (Rep(parent, a) = Rep(parent, b)) <=> Connected(united, a, b))
    /\ [][lastOp'.op = "find" =>
            \A x \in Elems : Rep(parent', x) = Rep(parent, x)]_vars

C4_Witness ==
    /\ lastOp.op = "find"
    /\ lastOp.halved
    /\ Rep(parent, lastOp.a) # lastOp.a
    /\ Connected(united, lastOp.a, Rep(parent, lastOp.a))

\* ------------------------------------------------------------------------
\* Identity predicate properties
\* ------------------------------------------------------------------------
\* C5: identifiers_match(a, b) = identifiers_match(b, a).
C5_MatchSymmetric == idOut.called => (idOut.ab = idOut.ba)

C5_Witness ==
    /\ idOut.called
    /\ idOut.ab
    /\ idA # idB
    /\ idA.authority # None

HasTemporal(id) == id.valid_from # None \/ id.valid_to # None

\* One record's concrete valid_to lies strictly before the other's valid_from.
EndsBefore(a, b) ==
    \E e, f \in Dates :
        a.valid_to = Some(Some(e)) /\ b.valid_from = Some(f) /\ e < f

\* The value without its surrounding whitespace: the stretch from the first
\* to the last non-whitespace character.
Core(s) ==
    LET keep == {i \in 1 .. Len(s) : ~IsWhitespace(s[i])}
    IN  IF keep = {} THEN <<>>
        ELSE SubSeq(s, CHOOSE i \in keep : \A j \in keep : i <= j,
                       CHOOSE i \in keep : \A j \in keep : i >= j)

Lower(s) == [i \in 1 .. Len(s) |-> ToAsciiLowercase(s[i])]

AuthoritiesAgree(a, b) ==
    \/ a.authority = None /\ b.authority = None
    \/ a.authority # None /\ b.authority # None
       /\ Lower(Unwrap(a.authority)) = Lower(Unwrap(b.authority))

C6_MatchExactly ==
    idOut.called =>
        (idOut.ab <=>
            /\ idA.scheme # "internal"
            /\ idB.scheme # "internal"
            /\ idA.scheme = idB.scheme
            /\ Core(idA.value) = Core(idB.value)
            /\ AuthoritiesAgree(idA, idB)
            /\ ~(/\ HasTemporal(idA)
                 /\ HasTemporal(idB)
                 /\ (EndsBefore(idA, idB) \/ EndsBefore(idB, idA))))

\* a padded value matches its trimmed form, authorities differing in case
C6_Witness ==
    /\ idOut.called
    /\ idOut.ab
    /\ idA.value # idB.value
    /\ idA.authority # None
    /\ idA.authority # idB.authority

\* ------------------------------------------------------------------------
\* Edge identity properties
\* ------------------------------------------------------------------------
\* The per-type identity fields of the edge identity table.
IdentityFields(t) ==
    CASE t = "ownership" -> {"percentage", "direct"}
      [] t = "operational_control" -> {"control_type"}
      [] t = "legal_parentage" -> {"consolidation_basis"}
      [] t = "former_identity" -> {"event_type", "effective_date"}
      [] t = "beneficial_ownership" -> {"control_type", "percentage"}
      [] t \in {"supplies", "subcontracts", "sells_to"} -> {"commodity", "contract_ref"}
      [] t \in {"tolls", "brokers"} -> {"commodity"}
      [] t = "distributes" -> {"service_type"}
      [] t = "attested_by" -> {"scope"}
      [] OTHER -> {}

ExternalIds(e) ==
    IF e.identifiers = None THEN {}
    ELSE {Unwrap(e.identifiers)[i] : i \in
            {j \in DOMAIN Unwrap(e.identifiers) :
                Unwrap(e.identifiers)[j].scheme # "internal"}}

ShareExternalId(a, b) ==
    \E x \in ExternalIds(a), y \in ExternalIds(b) : identifiers_match(x, y)

SameCompositeKey ==
    /\ edgeReps.source_rep_a = edgeReps.source_rep_b
    /\ edgeReps.target_rep_a = edgeReps.target_rep_b
    /\ edgeA.edge_type = edgeB.edge_type

\* C8: with equal (source representative, target representative, type) and
\* a type other than same_as, two edges match exactly when they share an
\* external identifier, or both lack external identifiers and their per-type
\* identity fields agree; a comparison involving a same_as edge never matches.
C8_EdgesMatch ==
    edgeOut.called =>
        /\ (edgeA.edge_type = "same_as" \/ edgeB.edge_type = "same_as")
                => ~edgeOut.result
        /\ (SameCompositeKey /\ edgeA.edge_type # "same_as") =>
              (edgeOut.result <=>
                  \/ ShareExternalId(edgeA, edgeB)
                  \/ /\ ExternalIds(edgeA) = {}
                     /\ ExternalIds(edgeB) = {}
                     /\ \A f \in IdentityFields(edgeA.edge_type) :
                            edgeA.properties[f] = edgeB.properties[f])

\* two ownership edges without external identifiers differing only in `direct`
C8_Witness ==
    /\ edgeOut.called
    /\ ~edgeOut.result
    /\ SameCompositeKey
    /\ edgeA.edge_type = "ownership"
    /\ ExternalIds(edgeA) = {}
    /\ ExternalIds(edgeB) = {}
    /\ edgeA.properties.direct # edgeB.properties.direct
    /\ edgeA.properties.percentage = edgeB.properties.percentage

\* ------------------------------------------------------------------------
\* same_as threshold
\* ------------------------------------------------------------------------
Range(s) == {s[i] : i \in 1 .. Len(s)}

\* definite <= probable <= possible
LevelRank(l) == CASE l = "definite" -> 1 [] l = "probable" -> 2 [] OTHER -> 3

ThresholdRank(t) == CASE t = "Definite" -> 1 [] t = "Probable" -> 2 [] OTHER -> 3

\* A confidence entry read as a level: a string names itself, anything else
\* (absent, not a string) is possible.
LevelOf(entry) ==
    IF entry # None /\ entry[1].kind = "string" THEN entry[1].s ELSE "possible"

IsStringEntry(entry) == entry # None /\ entry[1].kind = "string"

\* The level the code acts on: the property extension map's string, else the
\* edge-level map's string, else possible.
EffectiveLevel(e) ==
    IF IsStringEntry(e.properties_extra) THEN LevelOf(e.properties_extra)
    ELSE LevelOf(e.extra)

Resolves(e) ==
    e.source \in {"n0", "n1", "n2"} /\ e.target \in {"n0", "n1", "n2"}

Ordinal(id) == CHOOSE k \in 0 .. 2 : id = <<"n0", "n1", "n2">>[k + 1]

\* C9 as stated: a same_as edge is united exactly when the confidence on its
\* property extension map (absent or unrecognised: possible) meets the
\* threshold.
C9_UnionIffPropertyConfidenceMeets ==
    saOut.called =>
        \A i \in 1 .. Len(saEdges) :
            saEdges[i].edge_type = "same_as" =>
                (i \in Range(saOut.honoured)
                    <=> LevelRank(LevelOf(saEdges[i].properties_extra))
                            <= ThresholdRank(saOut.threshold))

\* C9 amended: a same_as edge is united exactly when both endpoints resolve
\* to a node and its effective confidence (the property extension map's
\* string, else the edge-level map's string, else possible) meets the
\* threshold in the order definite, probable, possible; a united edge's
\* endpoints share a representative afterwards; the default threshold is
\* definite.
C9_UnionIffEffectiveConfidenceMeets ==
    saOut.called =>
        /\ saOut.defaulted => saOut.threshold = "Definite"
        /\ \A i \in 1 .. Len(saEdges) :
              saEdges[i].edge_type = "same_as" =>
                  /\ i \in Range(saOut.honoured)
                        <=> /\ Resolves(saEdges[i])
                            /\ LevelRank(EffectiveLevel(saEdges[i]))
                                  <= ThresholdRank(saOut.threshold)
                  /\ i \in Range(saOut.honoured) =>
                        Rep(saOut.uf.parent, Ordinal(saEdges[i].source))
                            = Rep(saOut.uf.parent, Ordinal(saEdges[i].target))

\* A definite edge united under the default threshold next to a probable one
\* that is not, and nothing on the edge-level map.
C9_Witness ==
    /\ saOut.called
    /\ saOut.defaulted
    /\ Len(saEdges) = 2
    /\ saEdges[1].edge_type = "same_as"
    /\ saEdges[2].edge_type = "same_as"
    /\ Resolves(saEdges[1]) /\ Resolves(saEdges[2])
    /\ saEdges[1].properties_extra = Some(JsonString("definite"))
    /\ saEdges[2].properties_extra = Some(JsonString("probable"))
    /\ saEdges[1].extra = None /\ saEdges[2].extra = None
    /\ saOut.honoured = <<1>>

\* ------------------------------------------------------------------------
\* Scalar merge
\* ------------------------------------------------------------------------
\* The inputs that carry a value.
PresentInputs == {i \in 1 .. Len(scInputs) : scInputs[i].value # None}

JsonOf(i) == ToValue(scInputs[i].value[1])

AllJsonEqual == \A i, j \in PresentInputs : JsonOf(i) = JsonOf(j)

\* C10: merge_scalars returns Agreed(None) when no input has a value,
\* Agreed(v) with v an input value when every present value is JSON-equal
\* to v, and otherwise a Conflict that carries no value and whose entries
\* are exactly the (value, source_file) pairs of the present inputs.
C10_MergeScalars ==
    scOut.called =>
        LET r == scOut.result IN
        /\ PresentInputs = {} => r = Agreed(None)
        /\ (PresentInputs # {} /\ AllJsonEqual) =>
              /\ r.tag = "Agreed"
              /\ \E i \in PresentInputs : r.value = scInputs[i].value
              /\ \A i \in PresentInputs : JsonOf(i) = ToValue(r.value[1])
        /\ ~AllJsonEqual =>
              /\ r.tag = "Conflict"
              /\ r.value = None
              /\ Range(r.entries) =
                    {ConflictEntry(JsonOf(i), scInputs[i].source_file) :
                        i \in PresentInputs}

\* A conflict between two files next to an input without a value.
C10_Witness ==
    /\ scOut.called
    /\ scOut.result.tag = "Conflict"
    /\ Len(scOut.result.entries) = 2
    /\ scOut.result.entries[1].source_file # scOut.result.entries[2].source_file
    /\ \E i \in 1 .. Len(scInputs) : scInputs[i].value = None

\* ------------------------------------------------------------------------
\* Merge of files
\* ------------------------------------------------------------------------
\* What an output node says: its id, merged name, conflict records and
\* identifier records.
OutputNode(node) ==
    [id |-> node.id, name |-> node.name, conflicts |-> node.conflicts,
     identifiers |-> IF node.identifiers = None THEN {}
                     ELSE Range(Unwrap(node.identifiers))]

OutputNodes(out) == {OutputNode(out.nodes[k]) : k \in 1 .. Len(out.nodes)}

\* C1: merge([a, b]) and merge([b, a]) end alike and produce the same set
\* of output nodes (chosen ids, merged field values, conflict records) and
\* the same set of output edges.
C1_MergeCommutes ==
    (mgOutAB # None /\ mgOutBA # None) =>
        /\ Unwrap(mgOutAB).ok = Unwrap(mgOutBA).ok
        /\ OutputNodes(Unwrap(mgOutAB)) = OutputNodes(Unwrap(mgOutBA))
        /\ Range(Unwrap(mgOutAB).edges) = Range(Unwrap(mgOutBA).edges)
        /\ Unwrap(mgOutAB).conflict_count = Unwrap(mgOutBA).conflict_count

\* A node and an edge as merge leaves them when nothing is merged into them.
NodeView(node) ==
    [id |-> node.id, name |-> node.name,
     identifiers |-> IF node.identifiers = None THEN {}
                     ELSE Range(Unwrap(node.identifiers))]

EdgeView(edge) ==
    [id |-> edge.id, source |-> edge.source, target |-> edge.target,
     edge_type |-> edge.edge_type]

NodeViews(nodes) == {NodeView(nodes[k]) : k \in 1 .. Len(nodes)}

EdgeViews(edges) == {EdgeView(edges[k]) : k \in 1 .. Len(edges)}

SameGraph(out, f) ==
    /\ out.ok
    /\ Len(out.nodes) = Len(f.nodes)
    /\ Len(out.edges) = Len(f.edges)
    /\ NodeViews(out.nodes) = NodeViews(f.nodes)
    /\ EdgeViews(out.edges) = EdgeViews(f.edges)

IndexedIds(node) ==
    IF node.identifiers = None THEN <<>>
    ELSE SelectSeq(Unwrap(node.identifiers), Indexed)

\* Two nodes that the identifier index unites.
ShareIdentifier(m, n) ==
    \E i \in 1 .. Len(IndexedIds(m)) : \E j \in 1 .. Len(IndexedIds(n)) :
        /\ CanonicalId(IndexedIds(m)[i]) = CanonicalId(IndexedIds(n)[j])
        /\ identifiers_match(IndexedIds(m)[i], IndexedIds(n)[j])

\* Two edges of one file that fall into one partition.
SameEdge(d, e) ==
    /\ d.source = e.source
    /\ d.target = e.target
    /\ edges_match([source_rep_a |-> 0, target_rep_a |-> 1,
                    source_rep_b |-> 0, target_rep_b |-> 1], d, e)

\* Every node is united with its own copy and with no other node, no edge
\* is a same_as edge, and no two edges are one edge.
SelfMergeable(f) ==
    /\ \A k \in 1 .. Len(f.nodes) : ShareIdentifier(f.nodes[k], f.nodes[k])
    /\ \A k, l \in 1 .. Len(f.nodes) :
          k # l => ~ShareIdentifier(f.nodes[k], f.nodes[l])
    /\ \A k \in 1 .. Len(f.edges) : f.edges[k].edge_type # "same_as"
    /\ \A k, l \in 1 .. Len(f.edges) : k # l => ~SameEdge(f.edges[k], f.edges[l])

Permuted(inputs, p) == [i \in 1 .. Len(inputs) |-> inputs[p[i]]]

\* C11: when merge_scalars reports a conflict, its entries are in ascending
\* order of (source_file, JSON string of the value), no two entries share
\* (source_file, value), and every permutation of the inputs yields the
\* same entry list.
C11_ConflictDeterminism ==
    (scOut.called /\ scOut.result.tag = "Conflict") =>
        LET entries == scOut.result.entries IN
        /\ \A i, j \in 1 .. Len(entries) :
              i < j => EntryCmp(entries[i], entries[j]) # "Greater"
        /\ \A i, j \in 1 .. Len(entries) :
              (/\ entries[i].source_file = entries[j].source_file
               /\ entries[i].value = entries[j].value) => i = j
        /\ \A p \in Permutations(1 .. Len(scInputs)) :
              merge_scalars(Permuted(scInputs, p)) = scOut.result

\* A conflict whose inputs arrive out of order and repeat one
\* (source_file, value) pair.
C11_Witness ==
    /\ scOut.called
    /\ scOut.result.tag = "Conflict"
    /\ Len(scInputs) = 3
    /\ scInputs[1].source_file = <<"b">>
    /\ scInputs[2].source_file = <<"a">>
    /\ scInputs[3] = scInputs[1]
    /\ scInputs[1].value # None
    /\ Len(scOut.result.entries) = 2
    /\ scOut.result.entries[1].source_file = <<"a">>

\* ------------------------------------------------------------------------
\* Identifier union
\* ------------------------------------------------------------------------
\* The canonical strings of every record of every present input array.
InputCanonicalIds ==
    UNION {{CanonicalId(Unwrap(miInputs[i])[j]) : j \in 1 .. Len(Unwrap(miInputs[i]))} :
              i \in {k \in 1 .. Len(miInputs) : miInputs[k] # None}}

\* C12: the list merge_identifiers returns is ascending by canonical
\* identifier string, holds no two records with the same canonical string,
\* and its canonical strings are exactly those of all the input records.
C12_MergeIdentifiersSortedUnion ==
    miOut.called =>
        LET out == miOut.result IN
        /\ \A i, j \in 1 .. Len(out) :
              i < j => StrCmp(CanonicalId(out[i]), CanonicalId(out[j])) # "Greater"
        /\ \A i, j \in 1 .. Len(out) :
              CanonicalId(out[i]) = CanonicalId(out[j]) => i = j
        /\ {CanonicalId(out[i]) : i \in 1 .. Len(out)} = InputCanonicalIds

\* Two arrays that repeat one canonical string under two records and list
\* their records out of canonical order.
C12_Witness ==
    /\ miOut.called
    /\ Len(miInputs) = 2
    /\ miInputs[1] # None
    /\ miInputs[2] # None
    /\ Len(Unwrap(miInputs[1])) = 2
    /\ Len(Unwrap(miInputs[2])) = 1
    /\ Unwrap(miInputs[1])[1].scheme = "internal"
    /\ Unwrap(miInputs[1])[2].sensitivity = Some("confidential")
    /\ Unwrap(miInputs[2])[1].sensitivity = Some("public")
    /\ Len(miOut.result) = 2
    /\ miOut.result[1].sensitivity = Some("confidential")

\* ------------------------------------------------------------------------
\* Size cap
\* ------------------------------------------------------------------------
\* The payloads b with zsData = compress(b): at most one.
CompressedPayloads == {b \in ZstdPayloads : compress_zstd(b) = zsData}

\* C13: on compress(b), decompress_zstd succeeds (returning b) exactly when
\* b has at most max_size bytes and otherwise returns SizeLimitExceeded;
\* whatever the bytes given, it reads at most max_size + 1 decompressed
\* bytes.
C13_SizeCap ==
    zsOut.called =>
        /\ zsOut.read <= zsMax + 1
        /\ \A b \in CompressedPayloads :
              /\ IsOk(zsOut.result) <=> Len(b) <= zsMax
              /\ IsOk(zsOut.result) => zsOut.result = Ok(b)
              /\ ~IsOk(zsOut.result) =>
                    zsOut.result = Err(CompressionError("SizeLimitExceeded", Some(zsMax)))

\* compress(b) decompressed with max = |b| - 1: the limit is hit after
\* |b| of the |b| bytes were read.
C13_Witness ==
    /\ zsOut.called
    /\ \E b \in CompressedPayloads : Len(b) = MaxPayload /\ zsMax = Len(b) - 1
    /\ ~IsOk(zsOut.result)
    /\ zsOut.read = zsMax + 1

\* ------------------------------------------------------------------------
\* Decode detection
\* ------------------------------------------------------------------------
\* The byte strings b with pzBytes = compress(b): at most one.
FramedPayloads ==
    {b \in PlainInputs \cup {compress_zstd(c) : c \in PlainInputs} :
        compress_zstd(b) = pzBytes}

\* C14: when parse_omts is given compress(b) and b fits the ceiling, the
\* outcome is decided by detecting the encoding of b: NestedCompression
\* when b is itself a zstd frame, the detection error when b is not
\* recognised, and otherwise what parsing b alone gives, so a success names
\* Json or Cbor and never Zstd; an error carries no file.
C14_InnermostEncoding ==
    pzOut.called =>
        /\ \A b \in FramedPayloads :
              Len(b) <= pzMax =>
                 /\ HasPrefix(b, ZstdMagic) => pzOut.result = Err("NestedCompression")
                 /\ ~HasPrefix(b, ZstdMagic) => pzOut.result = parse_omts(b, pzMax)
                 /\ ~IsOk(detect_encoding(b)) => pzOut.result = Err("EncodingDetection")
        /\ IsOk(pzOut.result) => pzOut.result.value.encoding \in {"Json", "Cbor"}
        /\ ~IsOk(pzOut.result) => DOMAIN pzOut.result = {"ok", "error"}

\* compress(compress(b)) under a ceiling that lets the outer frame through.
C14_Witness ==
    /\ pzOut.called
    /\ pzBytes = compress_zstd(compress_zstd(JsonDocument))
    /\ pzMax >= Len(compress_zstd(JsonDocument))
    /\ pzOut.result = Err("NestedCompression")

\* ------------------------------------------------------------------------
\* Subgraph extraction
\* ------------------------------------------------------------------------
FileNodeIds == {sgFile.nodes[i].id : i \in 1 .. Len(sgFile.nodes)}

\* The file's nodes with an id of the set, and its edges with both
\* endpoints in the set, each in file order.
NodesAmong(ids) == SelectSeq(sgFile.nodes, LAMBDA n : n.id \in ids)

EdgesAmong(ids) == SelectSeq(sgFile.edges, LAMBDA e : e.source \in ids /\ e.target \in ids)

\* C15: induced_subgraph returns the requested nodes in file order together
\* with the edges whose source and target are both requested, in file
\* order; when a requested id is not in the graph it returns NodeNotFound
\* and no file.
C15_InducedSubgraph ==
    sgOut.op = "induced" =>
        LET requested == Range(sgOut.node_ids) IN
        IF requested \subseteq FileNodeIds
        THEN /\ IsOk(sgOut.result)
             /\ sgOut.result.value.nodes = NodesAmong(requested)
             /\ sgOut.result.value.edges = EdgesAmong(requested)
        ELSE /\ ~IsOk(sgOut.result)
             /\ sgOut.result.error.kind = "NodeNotFound"
             /\ Unwrap(sgOut.result.error.id) \in requested \ FileNodeIds

\* Two of three nodes requested against file order, with one edge between
\* them and one edge leaving them.
C15_Witness ==
    /\ sgOut.op = "induced"
    /\ sgOut.node_ids = <<"a", "b", "a">>
    /\ Len(sgFile.nodes) = 3
    /\ Len(sgFile.edges) = 2
    /\ sgFile.edges[1].target = "c"
    /\ sgFile.edges[2].source = "a"
    /\ sgFile.edges[2].target = "b"
    /\ IsOk(sgOut.result)
    /\ Len(sgOut.result.value.nodes) = 2
    /\ sgOut.result.value.nodes[1].id = "b"
    /\ Len(sgOut.result.value.edges) = 1

\* The ids of the nodes an Ok result holds.
ResultNodeIds ==
    {sgOut.result.value.nodes[i].id : i \in 1 .. Len(sgOut.result.value.nodes)}

\* C16: every extraction that returns a file copies version, snapshot date,
\* file salt, disclosure scope, previous-snapshot reference, sequence
\* number and unknown header fields from the input file, and keeps
\* reporting_entity exactly when the node it names is among the output
\* nodes, clearing it otherwise.
C16_HeaderPreserved ==
    (sgOut.op # "none" /\ IsOk(sgOut.result)) =>
        LET out == sgOut.result.value IN
        /\ out.omtsf_version = sgFile.omtsf_version
        /\ out.snapshot_date = sgFile.snapshot_date
        /\ out.file_salt = sgFile.file_salt
        /\ out.disclosure_scope = sgFile.disclosure_scope
        /\ out.previous_snapshot_ref = sgFile.previous_snapshot_ref
        /\ out.snapshot_sequence = sgFile.snapshot_sequence
        /\ out.extra = sgFile.extra
        /\ out.reporting_entity =
              (IF IsSome(sgFile.reporting_entity)
                  /\ Unwrap(sgFile.reporting_entity) \in ResultNodeIds
               THEN sgFile.reporting_entity
               ELSE None)

\* An ego graph of radius 0 around b in a file whose reporting entity is a:
\* the header is copied and the reporting entity cleared.
C16_Witness ==
    /\ sgOut.op = "ego"
    /\ sgOut.center = "b"
    /\ sgOut.radius = 0
    /\ Len(sgFile.nodes) = 3
    /\ sgFile.reporting_entity = Some("a")
    /\ IsOk(sgOut.result)
    /\ sgOut.result.value.reporting_entity = None
    /\ sgOut.result.value.snapshot_sequence = Some(7)

\* The ids one step from a set of ids along the file's edges: targets of
\* edges leaving the set for Forward, sources of edges entering it for
\* Backward, both for Both.
StepFrom(ids, direction) ==
    {sgFile.edges[i].target :
        i \in {k \in 1 .. Len(sgFile.edges) :
                  direction # "Backward" /\ sgFile.edges[k].source \in ids}}
    \cup {sgFile.edges[i].source :
        i \in {k \in 1 .. Len(sgFile.edges) :
                  direction # "Forward" /\ sgFile.edges[k].target \in ids}}

\* The ids at hop distance at most hops from a set of ids.
RECURSIVE WithinHops(_, _, _)
WithinHops(ids, hops, direction) ==
    IF hops = 0 THEN ids
    ELSE WithinHops(ids \cup StepFrom(ids, direction), hops - 1, direction)

\* C17: ego_graph returns the induced subgraph on the nodes at hop distance
\* at most radius from center in the given direction, only the center for
\* radius 0, and NodeNotFound for a center the graph does not hold.
C17_EgoGraph ==
    sgOut.op = "ego" =>
        IF sgOut.center \in FileNodeIds
        THEN LET ball == WithinHops({sgOut.center}, sgOut.radius, sgOut.direction) IN
             /\ IsOk(sgOut.result)
             /\ sgOut.result.value.nodes = NodesAmong(ball)
             /\ sgOut.result.value.edges = EdgesAmong(ball)
             /\ sgOut.radius = 0 => ResultNodeIds = {sgOut.center}
        ELSE sgOut.result = Err(QueryError("NodeNotFound", Some(sgOut.center)))

\* A chain b -> a -> c followed forward from b with radius 1: a is taken,
\* c, two hops away, is not.
C17_Witness ==
    /\ sgOut.op = "ego"
    /\ sgOut.center = "b"
    /\ sgOut.radius = 1
    /\ sgOut.direction = "Forward"
    /\ Len(sgFile.edges) = 2
    /\ sgFile.edges[1].source = "a" /\ sgFile.edges[1].target = "c"
    /\ sgFile.edges[2].source = "b" /\ sgFile.edges[2].target = "a"
    /\ IsOk(sgOut.result)
    /\ ResultNodeIds = {"b", "a"}

\* What the selector set matches: every node and edge when it is empty,
\* otherwise the nodes matched when it has a node selector and the edges
\* matched when it has an edge selector.
MatchedNodes ==
    {i \in 1 .. Len(sgFile.nodes) :
        \/ is_empty(sgOut.selectors)
        \/ has_node_selectors(sgOut.selectors) /\ matches_node(sgOut.selectors, sgFile.nodes[i])}

MatchedEdges ==
    {i \in 1 .. Len(sgFile.edges) :
        \/ is_empty(sgOut.selectors)
        \/ has_edge_selectors(sgOut.selectors) /\ matches_edge(sgOut.selectors, sgFile.edges[i])}

\* The matching nodes together with both endpoints of every matching edge.
SeedIds ==
    {sgFile.nodes[i].id : i \in MatchedNodes}
    \cup {sgFile.edges[i].source : i \in MatchedEdges}
    \cup {sgFile.edges[i].target : i \in MatchedEdges}

\* C18: with a non-empty selector set that matches something,
\* selector_subgraph returns the induced subgraph on the nodes within
\* expand hops, in either direction, of the matching nodes and the
\* endpoints of the matching edges; with expand = 0 that is the seed set
\* alone.
C18_SelectorSubgraph ==
    (/\ sgOut.op = "selector"
     /\ ~is_empty(sgOut.selectors)
     /\ MatchedNodes \cup MatchedEdges # {}) =>
        LET ball == WithinHops(SeedIds, sgOut.expand, "Both") IN
        /\ IsOk(sgOut.result)
        /\ sgOut.result.value.nodes = NodesAmong(ball)
        /\ sgOut.result.value.edges = EdgesAmong(ball)
        /\ sgOut.expand = 0 => ResultNodeIds = SeedIds

\* An edge selector alone: the owns edge b -> a seeds both its endpoints,
\* and c, one hop from a, stays out with expand = 0.
C18_Witness ==
    /\ sgOut.op = "selector"
    /\ sgOut.selectors = SelectorSet({}, {"owns"}, {})
    /\ sgOut.expand = 0
    /\ Len(sgFile.nodes) = 3
    /\ Len(sgFile.edges) = 2
    /\ sgFile.edges[1].source = "a" /\ sgFile.edges[1].target = "c"
    /\ sgFile.edges[2].source = "b" /\ sgFile.edges[2].target = "a"
    /\ IsOk(sgOut.result)
    /\ ResultNodeIds = {"b", "a"}

\* C19: selector_subgraph returns EmptyResult exactly when the selector set
\* matches no node and no edge of the file, a file without nodes and edges
\* included, and a subgraph file in every other case.
C19_EmptyResultIffNoMatch ==
    sgOut.op = "selector" =>
        IF MatchedNodes \cup MatchedEdges = {}
        THEN sgOut.result = Err(QueryError("EmptyResult", None))
        ELSE IsOk(sgOut.result)

\* ------------------------------------------------------------------------
\* Redaction
\* ------------------------------------------------------------------------
\* C20: the file redact returns for an L1-valid input passes L1: it declares
\* the target scope, every node that was not retained is a boundary_ref
\* with exactly one identifier, of scheme opaque, every edge endpoint is
\* the id of an output node, no identifier left exceeds the ceiling of the
\* scope, and reporting_entity is absent or names an organization node.
C20_RedactedFilePassesL1 ==
    rdOut.called =>
        LET out == rdOut.file IN
        /\ RedactL1Valid(out)
        /\ out.disclosure_scope = Some(rdOut.target_scope)
        /\ \A n \in 1 .. Len(rdFile.nodes) :
              rdFile.nodes[n].id \notin rdOut.retain =>
                 /\ out.nodes[n].type = "boundary_ref"
                 /\ Len(IdentifiersOf(out.nodes[n])) = 1
                 /\ IdentifiersOf(out.nodes[n])[1].scheme = "opaque"
        /\ GdmRule03(out)
        /\ L1Sdi02(out)
        /\ GdmRule05(out)

\* ------------------------------------------------------------------------
\* L1 validation rules
\* ------------------------------------------------------------------------
\* The diagnostics of a list that are located at the node or edge id.
LocatedAt(diags, id) == SelectSeq(diags, LAMBDA d : d.location.id = id)

\* A boundary_ref node as SDI-01 wants it: exactly one identifier, of
\* scheme opaque.
OneOpaqueIdentifier(node) ==
    /\ node.identifiers # None
    /\ Len(Unwrap(node.identifiers)) = 1
    /\ Unwrap(node.identifiers)[1].scheme = "opaque"

\* C21: L1-SDI-01 reports nothing for a boundary_ref node exactly when the
\* node has exactly one identifier and its scheme is opaque; a node of any
\* other type is never reported. Diagnostics name the node by id, so with
\* a repeated id: an id has no diagnostic exactly when every node with
\* that id is no boundary_ref or has one opaque identifier. Every
\* diagnostic is an error located at a node of the file.
C21_Sdi01ExactlyOneOpaque ==
    vlOut.called =>
        /\ \A n \in 1 .. Len(vlFile.nodes) :
              (LocatedAt(vlOut.sdi01, vlFile.nodes[n].id) = <<>>)
                  <=> \A m \in 1 .. Len(vlFile.nodes) :
                         vlFile.nodes[m].id = vlFile.nodes[n].id =>
                            \/ vlFile.nodes[m].type # "boundary_ref"
                            \/ OneOpaqueIdentifier(vlFile.nodes[m])
        /\ \A k \in 1 .. Len(vlOut.sdi01) :
              /\ vlOut.sdi01[k].severity = "Error"
              /\ vlOut.sdi01[k].rule_id = "L1Sdi01"
              /\ \E n \in 1 .. Len(vlFile.nodes) :
                    /\ vlFile.nodes[n].id = vlOut.sdi01[k].location.id
                    /\ vlFile.nodes[n].type = "boundary_ref"

\* A file validated in which one boundary_ref has one opaque identifier and
\* is not reported, another has an opaque and a second identifier and is
\* reported, and a node of another type with the same identifiers as the
\* second is not.
C21_Witness ==
    /\ vlOut.called
    /\ Len(vlFile.nodes) = 3
    /\ vlFile.nodes[1].type = "boundary_ref" /\ vlFile.nodes[1].id = "a"
    /\ OneOpaqueIdentifier(vlFile.nodes[1])
    /\ vlFile.nodes[2].type = "boundary_ref" /\ vlFile.nodes[2].id = "b"
    /\ Len(IdentifiersOf(vlFile.nodes[2])) = 2
    /\ IdentifiersOf(vlFile.nodes[2])[1].scheme = "opaque"
    /\ IdentifiersOf(vlFile.nodes[2])[2].scheme = "lei"
    /\ vlFile.nodes[3].type = "facility" /\ vlFile.nodes[3].id = "a"
    /\ LocatedAt(vlOut.sdi01, "a") = <<>>
    /\ LocatedAt(vlOut.sdi01, "b") # <<>>

\* The endpoint of an edge on one side, and the node types the table lists
\* for that side of the edge's type.
EndpointOf(edge, field) == IF field = "source" THEN edge.source ELSE edge.target

PermittedSide(edge, field) ==
    Unwrap(permitted_types(edge.type))[IF field = "source" THEN 1 ELSE 2]

\* An edge of a core type other than same_as whose endpoint on the side
\* names a node of the file that is no boundary_ref and of no type the
\* table lists.
EndpointOutsideTable(file, edge, field) ==
    /\ edge.type \in KnownEdgeTypes \ {"same_as"}
    /\ \E n \in 1 .. Len(file.nodes) :
          /\ file.nodes[n].id = EndpointOf(edge, field)
          /\ file.nodes[n].type # "boundary_ref"
          /\ file.nodes[n].type \notin PermittedSide(edge, field)

\* The L1-GDM-06 diagnostics at an edge id for one side.
Gdm06At(id, field) ==
    SelectSeq(vlOut.gdm06, LAMBDA d : d.location.id = id /\ d.location.field = Some(field))

\* C22: in a file whose node ids are unique, L1-GDM-06 reports the source
\* (the target) of an edge of a core type other than same_as exactly when
\* that endpoint names a node whose type is neither boundary_ref nor one
\* the permitted-types table lists for that side; extension edges and
\* same_as edges are never reported. Diagnostics name the edge by id, so
\* per id and side there are as many diagnostics as edges with that id
\* whose endpoint is outside the table.
C22_Gdm06PermittedTypes ==
    (vlOut.called /\ GdmRule01(vlFile)) =>
        /\ \A e \in 1 .. Len(vlFile.edges), field \in {"source", "target"} :
              Len(Gdm06At(vlFile.edges[e].id, field))
                  = Len(SelectSeq(vlFile.edges,
                                  LAMBDA x : /\ x.id = vlFile.edges[e].id
                                             /\ EndpointOutsideTable(vlFile, x, field)))
        /\ \A k \in 1 .. Len(vlOut.gdm06) :
              \E e \in 1 .. Len(vlFile.edges) :
                 vlFile.edges[e].id = vlOut.gdm06[k].location.id

\* The positions of a list of nodes or edges whose id occurs earlier in it.
RepeatPositions(items) ==
    {i \in 1 .. Len(items) : \E j \in 1 .. i - 1 : items[j].id = items[i].id}

\* The k-th smallest member of a set of numbers.
KthOf(P, k) == CHOOSE i \in P : Cardinality({j \in P : j <= i}) = k

\* The diagnostics are one per repeated occurrence of an id, in file order.
OnePerRepeat(diags, items) ==
    /\ Len(diags) = Cardinality(RepeatPositions(items))
    /\ \A k \in 1 .. Len(diags) :
          diags[k].location.id = items[KthOf(RepeatPositions(items), k)].id

\* The dangling endpoints of a file: edge position and side, numbered in
\* file order, the source of an edge before its target.
DanglingSlots(file) ==
    LET node_ids == {file.nodes[n].id : n \in 1 .. Len(file.nodes)}
    IN  {2 * e : e \in {x \in 1 .. Len(file.edges) : file.edges[x].source \notin node_ids}}
        \cup {2 * e + 1 :
                e \in {x \in 1 .. Len(file.edges) : file.edges[x].target \notin node_ids}}

\* C23: the L1-GDM rules report every violation: GDM-01 and GDM-02 give one
\* diagnostic for each occurrence of an id after its first, GDM-03 one per
\* dangling source and one per dangling target (two for an edge with both
\* endpoints dangling), and within each rule the diagnostics follow the
\* file order of the nodes or edges they are about.
C23_GdmReportsEveryViolationInOrder ==
    vlOut.called =>
        /\ OnePerRepeat(vlOut.gdm01, vlFile.nodes)
        /\ OnePerRepeat(vlOut.gdm02, vlFile.edges)
        /\ Len(vlOut.gdm03) = Cardinality(DanglingSlots(vlFile))
        /\ \A k \in 1 .. Len(vlOut.gdm03) :
              LET slot == KthOf(DanglingSlots(vlFile), k)
              IN  /\ vlOut.gdm03[k].location.id = vlFile.edges[slot \div 2].id
                  /\ vlOut.gdm03[k].location.field
                        = Some(IF slot % 2 = 0 THEN "source" ELSE "target")

\* A file validated with a repeated node id, a repeated edge id, an edge
\* with both endpoints dangling followed by one with a dangling target:
\* one GDM-01, one GDM-02 and three GDM-03 diagnostics.
C23_Witness ==
    /\ vlOut.called
    /\ Len(vlFile.edges) = 2
    /\ vlFile.edges[1].source = "z" /\ vlFile.edges[1].target = "z"
    /\ vlFile.edges[2].source = "a" /\ vlFile.edges[2].target = "z"
    /\ Len(vlOut.gdm01) = 1
    /\ Len(vlOut.gdm02) = 1
    /\ Len(vlOut.gdm03) = 3

\* ------------------------------------------------------------------------
\* UnionFind: tie-break and structure
\* ------------------------------------------------------------------------
\* The root union is to keep when it joins the distinct roots ra and rb:
\* on equal ranks the lower ordinal, otherwise the root of higher rank.
Winner(ra, rb) ==
    IF rank[ra] = rank[rb] THEN (IF ra < rb THEN ra ELSE rb)
    ELSE IF rank[ra] > rank[rb] THEN ra ELSE rb

\* C24: when union joins two distinct roots of equal rank, the root with the
\* lower ordinal is the representative of the merged set, so that find of
\* either argument returns it; when the ranks differ, the root of higher
\* rank is, whatever its ordinal.
C24_UnionTieBreak ==
    [][\A a, b \in Elems :
          (Union(a, b) /\ Rep(parent, a) # Rep(parent, b)) =>
              /\ Rep(parent', a) = Winner(Rep(parent, a), Rep(parent, b))
              /\ Rep(parent', b) = Winner(Rep(parent, a), Rep(parent, b))]_vars

\* union(0, 2) has just joined the root 0 of rank 0 to the root 2, which an
\* earlier tie with 3 had raised to rank 1: the higher ordinal is the
\* representative.
C24_Witness ==
    /\ lastOp = [op |-> "union", a |-> 0, b |-> 2, halved |-> FALSE]
    /\ parent[3] = 2 /\ rank[2] = 1
    /\ parent[0] = 2 /\ rank[0] = 0

\* The element reached from x by following parent n times.
RECURSIVE Climb(_, _)
Climb(x, n) == IF n = 0 THEN x ELSE Climb(parent[x], n - 1)

\* The elements whose parent chain passes through x.
Below(x) == {y \in Elems : \E n \in 0 .. NumElems - 1 : Climb(y, n) = x}

\* C30: in every state reached by union and find calls the parent pointers
\* form a forest (from every element a self-parented root is reached in
\* fewer steps than there are elements, so find terminates), every element
\* that is no root has a rank strictly below its parent's, and a root of
\* rank r heads a set of at least 2^r elements, so that the rank stays far
\* below the 256 values of its 8 bits.
C30_ForestAndRanks ==
    /\ \A x \in Elems : parent[x] \in Elems
    /\ \A x \in Elems :
          \E n \in 0 .. NumElems - 1 : parent[Climb(x, n)] = Climb(x, n)
    /\ \A x \in Elems : parent[x] # x => rank[x] < rank[parent[x]]
    /\ \A x \in Elems :
          parent[x] = x =>
             /\ Cardinality(Below(x)) >= 2 ^ rank[x]
             /\ rank[x] + 1 < U8Modulus

\* Two ties between singletons and a tie between their roots: root 0 has
\* rank 2 and 3 is two steps below it.
C30_Witness ==
    /\ rank[0] = 2
    /\ parent[2] = 0
    /\ parent[3] = 2
    /\ parent[1] = 0

\* ------------------------------------------------------------------------
\* same_as pass: frame
\* ------------------------------------------------------------------------
\* The positions of the edges to apply: same_as edges whose confidence
\* meets the threshold and whose endpoints both resolve to an ordinal.
AppliedEdges ==
    {i \in 1 .. Len(saEdges) :
        /\ saEdges[i].edge_type = "same_as"
        /\ Resolves(saEdges[i])
        /\ LevelRank(EffectiveLevel(saEdges[i])) <= ThresholdRank(saOut.threshold)}

\* The representative of every element under a parent vector.
RepsOf(p) == [x \in Elems |-> Rep(p, x)]

\* The links the result may rest on: the pairs the given union-find already
\* holds together and the endpoints of the edges to apply.
SameAsLinks(old_rep, applied) ==
    {{q[1], q[2]} : q \in {r \in Elems \X Elems : old_rep[r[1]] = old_rep[r[2]]}}
    \cup {{Ordinal(saEdges[i].source), Ordinal(saEdges[i].target)} : i \in applied}

\* The elements an applied edge reaches: those held together with one of
\* its endpoints by the given union-find.
TouchedElems(old_rep, applied) ==
    {x \in Elems :
        \E i \in applied :
            old_rep[x] \in {old_rep[Ordinal(saEdges[i].source)],
                            old_rep[Ordinal(saEdges[i].target)]}}

\* Sharing a representative afterwards is being connected by the links,
\* and an element no applied edge reaches keeps its representative.
FrameKept(old_rep, new_rep, links, touched) ==
    /\ \A x \in Elems :
          {y \in Elems : new_rep[y] = new_rep[x]} = Component({x}, links)
    /\ \A x \in Elems \ touched : new_rep[x] = old_rep[x]

\* C25: apply_same_as_edges changes the union-find only by uniting the
\* endpoints of the same_as edges that meet the threshold and resolve: two
\* elements share a representative afterwards exactly when the earlier
\* sets and those edges connect them, an element no such edge reaches
\* keeps its representative (so edges of another type, below the threshold
\* or with an unresolved endpoint change nothing), and the list returned
\* is exactly the applied edges in input order.
C25_SameAsFrame ==
    saOut.called =>
        /\ Len(saOut.honoured) = Cardinality(AppliedEdges)
        /\ \A k \in 1 .. Len(saOut.honoured) : saOut.honoured[k] = KthOf(AppliedEdges, k)
        /\ FrameKept(RepsOf(saUf.parent), RepsOf(saOut.uf.parent),
                     SameAsLinks(RepsOf(saUf.parent), AppliedEdges),
                     TouchedElems(RepsOf(saUf.parent), AppliedEdges))

\* A supplies edge marked definite and a same_as edge between n0 and n1,
\* given a union-find that holds n1 and n2 together: only the second edge
\* is returned, n0 joins the set of n1 and n2, and 3 is left alone.
C25_Witness ==
    /\ saOut.called
    /\ saUf # UnionFindNew
    /\ Len(saEdges) = 2
    /\ saEdges[1].edge_type = "supplies"
    /\ saEdges[1].properties_extra = Some(JsonString("definite"))
    /\ saEdges[2].edge_type = "same_as"
    /\ saEdges[2].source = "n0" /\ saEdges[2].target = "n1"
    /\ saOut.honoured = <<2>>
    /\ Rep(saOut.uf.parent, 0) = Rep(saOut.uf.parent, 2)
    /\ Rep(saOut.uf.parent, 3) = 3

\* ------------------------------------------------------------------------
\* Diff: scalar comparison
\* ------------------------------------------------------------------------
\* A date, padded or not: a year of digits, a month and a day of one or two
\* digits, separated by hyphens.
IsNumeral(p, max_len) ==
    Len(p) \in 1 .. max_len /\ \A i \in 1 .. Len(p) : IsDigit(p[i])

IsDateString(str) ==
    /\ Cardinality({i \in 1 .. Len(str) : str[i] = "-"}) = 2
    /\ IsNumeral(SplitN3(str)[1], Len(str))
    /\ IsNumeral(SplitN3(str)[2], 2)
    /\ IsNumeral(SplitN3(str)[3], 2)

\* Two dates denote the same calendar day.
SameDay(a, b) ==
    /\ SplitN3(a)[1] = SplitN3(b)[1]
    /\ DecimalValue(SplitN3(a)[2]) = DecimalValue(SplitN3(b)[2])
    /\ DecimalValue(SplitN3(a)[3]) = DecimalValue(SplitN3(b)[3])

IsStringValue(v) == v # None /\ Unwrap(v).kind = "string"

\* C26: the scalar comparison of the diff treats two strings as equal only
\* when they are the same string or both are dates that denote the same
\* calendar day once month and day are zero-padded; every other pair of
\* different strings, and every pair of a present and an absent value,
\* gives one PropertyChange carrying the old and the new value.
C26_StringsEqualOnlyAsSameDay ==
    dfOut.called =>
        /\ (IsStringValue(dfOld) /\ IsStringValue(dfNew)) =>
              ((dfOut.changes = <<>>)
                  <=> \/ Unwrap(dfOld).s = Unwrap(dfNew).s
                      \/ /\ IsDateString(Unwrap(dfOld).s)
                         /\ IsDateString(Unwrap(dfNew).s)
                         /\ SameDay(Unwrap(dfOld).s, Unwrap(dfNew).s))
        /\ ((dfOld = None) # (dfNew = None)) => dfOut.changes # <<>>
        /\ dfOut.changes \in {<<>>, <<PropertyChange("valid_from", dfOld, dfNew)>>}

\* ------------------------------------------------------------------------
\* Merge groups against the links between nodes
\* ------------------------------------------------------------------------
LinkNodes == ConcatNodes(<<mgA, mgB>>, 1)

LinkOrdinals == 0 .. Len(LinkNodes) - 1

\* find(o) of every ordinal after the identifier pass and the same_as pass
\* of merge(&[a, b]).
GroupOf ==
    RepOf(SameAsPass(<<mgA, mgB>>, 2, NodeIdMaps(<<mgA, mgB>>, LinkNodes),
                     UnionBuckets(IndexEntries(LinkNodes, Len(LinkNodes)),
                                  UnionFindOfSize(Len(LinkNodes))),
                     MergeConfigDefault.same_as_threshold),
          Len(LinkNodes))

IndexedRecords(o) ==
    IF LinkNodes[o + 1].node.identifiers = None THEN {}
    ELSE {Unwrap(LinkNodes[o + 1].node.identifiers)[j] :
             j \in {k \in 1 .. Len(Unwrap(LinkNodes[o + 1].node.identifiers)) :
                       Indexed(Unwrap(LinkNodes[o + 1].node.identifiers)[k])}}

\* Two nodes hold indexed records that pass identifiers_match.
IdentifierLinks ==
    {p \in LinkOrdinals \X LinkOrdinals :
        \E i \in IndexedRecords(p[1]), j \in IndexedRecords(p[2]) :
            identifiers_match(i, j)}

\* The endpoints of the same_as edges honoured under the threshold.
HonouredLinksOf(file, map) ==
    {<<map[file.edges[i].source], map[file.edges[i].target]>> :
        i \in {k \in 1 .. Len(file.edges) :
                  /\ file.edges[k].edge_type = "same_as"
                  /\ honours(MergeConfigDefault.same_as_threshold,
                             confidence_str(file.edges[k]))
                  /\ file.edges[k].source \in DOMAIN map
                  /\ file.edges[k].target \in DOMAIN map}}

HonouredLinks ==
    HonouredLinksOf(mgA, NodeIdMap(LinkNodes, 1))
    \cup HonouredLinksOf(mgB, NodeIdMap(LinkNodes, 2))

\* C27: after the identifier pass and the same_as pass, two nodes are in one
\* merge group exactly when a chain of links connects them, a link being a
\* pair of nodes holding indexed records that pass identifiers_match or the
\* endpoints of an honoured same_as edge.
C27_GroupsAreLinkClosure ==
    mgOutAB # None =>
        \A x, y \in LinkOrdinals :
            (GroupOf[x] = GroupOf[y])
                <=> (y \in Linked({x}, IdentifierLinks \cup HonouredLinks))

\* ------------------------------------------------------------------------
\* Extracted files are well formed
\* ------------------------------------------------------------------------
NoDanglingEdge(file) ==
    \A e \in 1 .. Len(file.edges) :
        /\ \E n \in 1 .. Len(file.nodes) : file.nodes[n].id = file.edges[e].source
        /\ \E n \in 1 .. Len(file.nodes) : file.nodes[n].id = file.edges[e].target

NoRepeatedId(items) ==
    \A i, j \in 1 .. Len(items) : items[i].id = items[j].id => i = j

RepeatsAnId(node_ids) ==
    \E i, j \in 1 .. Len(node_ids) : i # j /\ node_ids[i] = node_ids[j]

\* C28: the file returned by induced_subgraph, ego_graph or
\* selector_subgraph has no edge whose source or target is missing from its
\* nodes and holds no node id and no edge id twice, whatever ids the request
\* repeats and however many seeds reach one node.
C28_SubgraphWellFormed ==
    (sgOut.op # "none" /\ IsOk(sgOut.result)) =>
        /\ NoDanglingEdge(sgOut.result.value)
        /\ NoRepeatedId(sgOut.result.value.nodes)
        /\ NoRepeatedId(sgOut.result.value.edges)

\* induced_subgraph over a list that repeats an id returned a file with an
\* edge while an edge of the graph was left out.
C28_Witness ==
    /\ sgOut.op = "induced"
    /\ RepeatsAnId(sgOut.node_ids)
    /\ IsOk(sgOut.result)
    /\ Len(sgOut.result.value.edges) >= 1
    /\ Len(sgOut.result.value.edges) < Len(sgFile.edges)

\* ------------------------------------------------------------------------
\* A record matched against itself
\* ------------------------------------------------------------------------
\* valid_from is later than a concrete valid_to.
StartsAfterEnd(id) ==
    /\ id.valid_from # None
    /\ id.valid_to # None
    /\ id.valid_to # Some(None)
    /\ Unwrap(id.valid_from) > Unwrap(Unwrap(id.valid_to))

\* C29: identifiers_match(a, a) is true for every record whose scheme is not
\* internal and whose valid_from is not later than a concrete valid_to, and
\* false for every internal-scheme record.
C29_MatchesItself ==
    (idOut.called /\ idA = idB) =>
        /\ (idA.scheme # "internal" /\ ~StartsAfterEnd(idA)) => idOut.ab
        /\ idA.scheme = "internal" => ~idOut.ab

\* A non-internal record that starts and ends on one day, with an authority
\* and surrounding whitespace in its value, matched against itself.
C29_Witness ==
    /\ idOut.called
    /\ idA = idB
    /\ idA.scheme # "internal"
    /\ idA.authority # None
    /\ idA.value # Trim(idA.value)
    /\ idA.valid_from # None
    /\ idA.valid_to = Some(Some(Unwrap(idA.valid_from)))
    /\ idOut.ab

====
